---- MODULE Spec2Model ----
(***************************************************************************)
(* Backgammon move generation, apply and undo (td-gammon).                 *)
(*                                                                         *)
(* The state is the Board of a BackgammonGame (24 signed point values,     *)
(* the turn, two barred and two offed counts), the step counter, the       *)
(* locals of the turn loop (roll, candidate list, chosen action), and the  *)
(* checker totals of the boards the search has passed through.  The        *)
(* recursive search __get_move_rolls is an operator that threads the one   *)
(* shared board through every apply and undo, as the code does.            *)
(***************************************************************************)
EXTENDS Integers, Sequences, FiniteSets, TLC

VARIABLES board, counter, pc, die_roll, move_rolls, action, todo, done,
          checker_counts, serialized_board, decoded,
          reward, info, agent_type, first_roll,
          mv_rolls_hist, move_rolls_in_effect, cmd, filtered_from, env_clone

vars == <<board, counter, pc, die_roll, move_rolls, action, todo, done,
          checker_counts, serialized_board, decoded,
          reward, info, agent_type, first_roll,
          mv_rolls_hist, move_rolls_in_effect, cmd, filtered_from, env_clone>>

\* what step returns besides done, and the loop's agent_type and first_roll
loop_vars == <<reward, info, agent_type, first_roll>>

\* the local state of the agents' get_move.  move_rolls_in_effect is the
\* parameter move_rolls of HumanAgent.get_move, which a filter binds to a new
\* list while the caller's list stays in move_rolls; filtered_from keeps the
\* list that was in effect before the last filter, until the next u
agent_vars == <<mv_rolls_hist, move_rolls_in_effect, cmd, filtered_from, env_clone>>

-----------------------------------------------------------------------------
(* Program constants *)

NUM_PLAYABLE_POINTS == 24

INIT_CHECKER_COUNT == 15

MIN_DIE == 1

MAX_DIE == 6

COUNTER_LIMIT == 10000

(* Bounds of the model *)

\* number of iterations of the turn loop that are explored
MaxPlies == 1

\* the agent picks among the first MaxChoice candidates of the list
MaxChoice == 1

\* the filters a human agent stacks in one get_move
MaxFilters == 1

-----------------------------------------------------------------------------
(* Values *)

WHITE == "WHITE"

BLACK == "BLACK"

Player == {WHITE, BLACK}

NORMAL == "NORMAL"

NORMAL_PUT_ON_BAR == "NORMAL_PUT_ON_BAR"

BAR_ENTRY == "BAR_ENTRY"

BAR_ENTRY_PUT_ON_BAR == "BAR_ENTRY_PUT_ON_BAR"

BEAR_OFF == "BEAR_OFF"

MoveType == {NORMAL, NORMAL_PUT_ON_BAR, BAR_ENTRY, BAR_ENTRY_PUT_ON_BAR, BEAR_OFF}

\* GameState
GS_NORMAL == "GS_NORMAL"

GS_BARRED_PIECES == "GS_BARRED_PIECES"

GS_BEAR_OFF == "GS_BEAR_OFF"

GS_OVER == "GS_OVER"

\* Optional values: None is the empty tuple, a value x is the tuple <<x>>
None == <<>>

Some(x) == <<x>>

Points == 0 .. (NUM_PLAYABLE_POINTS - 1)

Dice == MIN_DIE .. MAX_DIE

\* Move = namedtuple("Move", "from_point to_point move_type"): equal by value
Move(from_point, to_point, move_type) ==
    [from_point |-> from_point, to_point |-> to_point, move_type |-> move_type]

\* Board(points, turn, barred_white, barred_black, offed_white, offed_black)
NewBoard(points, turn, barred_white, barred_black, offed_white, offed_black) ==
    [points |-> points, turn |-> turn,
     barred_white |-> barred_white, barred_black |-> barred_black,
     offed_white |-> offed_white, offed_black |-> offed_black]

Abs(x) == IF x < 0 THEN -x ELSE x

-----------------------------------------------------------------------------
(* Board: queries and unchecked primitive mutators *)

is_point_of_color(b, idx, color) ==
    \/ (color = WHITE /\ b.points[idx] > 0)
    \/ (color = BLACK /\ b.points[idx] < 0)

num_checkers_at_index(b, idx) == Abs(b.points[idx])

inc_point(b, idx) == [b EXCEPT !.points[idx] = @ + 1]

dec_point(b, idx) == [b EXCEPT !.points[idx] = @ - 1]

inc_barred(b, color) ==
    IF color = WHITE THEN [b EXCEPT !.barred_white = @ + 1]
                     ELSE [b EXCEPT !.barred_black = @ + 1]

dec_barred(b, color) ==
    IF color = WHITE THEN [b EXCEPT !.barred_white = @ - 1]
                     ELSE [b EXCEPT !.barred_black = @ - 1]

inc_offed(b, color) ==
    IF color = WHITE THEN [b EXCEPT !.offed_white = @ + 1]
                     ELSE [b EXCEPT !.offed_black = @ + 1]

dec_offed(b, color) ==
    IF color = WHITE THEN [b EXCEPT !.offed_white = @ - 1]
                     ELSE [b EXCEPT !.offed_black = @ - 1]

\* Player.get_home_board_range: white range(6), black range(23, 17, -1)
get_home_board_range(pl) == IF pl = WHITE THEN 0 .. 5 ELSE 18 .. 23

index_in_home(idx, color) == idx \in get_home_board_range(color)

RECURSIVE SumPoints(_, _)
SumPoints(b, S) ==
    IF S = {} THEN 0
    ELSE LET idx == CHOOSE i \in S : TRUE
         IN  b.points[idx] + SumPoints(b, S \ {idx})

\* the signed point values of the home range are added up (negated for black)
all_checkers_in_home(b, player) ==
    LET cnt == IF player = WHITE
               THEN SumPoints(b, get_home_board_range(player))
               ELSE -SumPoints(b, get_home_board_range(player))
        offed_pieces == IF player = WHITE THEN b.offed_white ELSE b.offed_black
    IN  cnt + offed_pieces = INIT_CHECKER_COUNT

\* the checkers of one colour on the points idx .. 23
RECURSIVE checkers_on_points(_, _, _)
checkers_on_points(b, idx, color) ==
    IF idx >= NUM_PLAYABLE_POINTS THEN 0
    ELSE (IF is_point_of_color(b, idx, color) THEN num_checkers_at_index(b, idx) ELSE 0)
         + checkers_on_points(b, idx + 1, color)

\* the quantities of __assert_checkers_invariant, kept apart by colour:
\* <<white on points + barred + offed, black on points + barred + offed>>
checkers_of_colours(b) ==
    <<checkers_on_points(b, 0, WHITE) + b.barred_white + b.offed_white,
      checkers_on_points(b, 0, BLACK) + b.barred_black + b.offed_black>>

-----------------------------------------------------------------------------
(* BackgammonGame: classifier *)

\* is_game_over with the game ending one checker early
is_game_over_one_checker_early(b) ==
    b.offed_black >= INIT_CHECKER_COUNT - 1 \/ b.offed_white >= INIT_CHECKER_COUNT - 1

is_game_over(b) ==
    b.offed_black = INIT_CHECKER_COUNT \/ b.offed_white = INIT_CHECKER_COUNT

winner(b) ==
    IF b.offed_black = INIT_CHECKER_COUNT THEN Some(BLACK)
    ELSE IF b.offed_white = INIT_CHECKER_COUNT THEN Some(WHITE)
    ELSE None

all_pieces_in_house_for_turn(b) ==
    IF b.turn = WHITE THEN all_checkers_in_home(b, WHITE)
                      ELSE all_checkers_in_home(b, BLACK)

\* game_state_for_current_turn without the rule for barred checkers
game_state_ignoring_bar(b) ==
    IF is_game_over(b) THEN GS_OVER
    ELSE IF all_pieces_in_house_for_turn(b) THEN GS_BEAR_OFF
    ELSE GS_NORMAL

game_state_for_current_turn(b) ==
    IF is_game_over(b) THEN GS_OVER
    ELSE IF (b.turn = WHITE /\ b.barred_white > 0) \/ (b.turn = BLACK /\ b.barred_black > 0)
         THEN GS_BARRED_PIECES
    ELSE IF all_pieces_in_house_for_turn(b) THEN GS_BEAR_OFF
    ELSE GS_NORMAL

-----------------------------------------------------------------------------
(* BackgammonGame: single-die move generation *)

is_destination_valid(idx) == 0 <= idx /\ idx < NUM_PLAYABLE_POINTS

\* normal_moves_from with a hit on any opponent point, blocks included
normal_moves_hitting_blocks(b, idx, direction, die) ==
    IF is_point_of_color(b, idx, b.turn) /\ num_checkers_at_index(b, idx) > 0
    THEN LET dest_idx == idx + (die * direction)
         IN  IF is_destination_valid(dest_idx)
             THEN IF is_point_of_color(b, dest_idx, b.turn)
                     \/ num_checkers_at_index(b, dest_idx) = 0
                  THEN {Move(idx, dest_idx, NORMAL)}
                  ELSE IF ~is_point_of_color(b, dest_idx, b.turn)
                          /\ num_checkers_at_index(b, dest_idx) >= 1
                       THEN {Move(idx, dest_idx, NORMAL_PUT_ON_BAR)}
                       ELSE {}
             ELSE {}
    ELSE {}

\* the body of the loop of __get_normal_moves_for_die for one idx
normal_moves_from(b, idx, direction, die) ==
    IF is_point_of_color(b, idx, b.turn) /\ num_checkers_at_index(b, idx) > 0
    THEN LET dest_idx == idx + (die * direction)
         IN  IF is_destination_valid(dest_idx)
             THEN IF is_point_of_color(b, dest_idx, b.turn)
                     \/ num_checkers_at_index(b, dest_idx) = 0
                  THEN {Move(idx, dest_idx, NORMAL)}
                  ELSE IF ~is_point_of_color(b, dest_idx, b.turn)
                          /\ num_checkers_at_index(b, dest_idx) = 1
                       THEN {Move(idx, dest_idx, NORMAL_PUT_ON_BAR)}
                       ELSE {}
             ELSE {}
    ELSE {}

\* get_normal_moves_for_die that stops one point short of the end of the range
get_normal_moves_short_range(b, start, end, direction, die) ==
    UNION {normal_moves_from(b, idx, direction, die) : idx \in start .. (end - 2)}

get_normal_moves_for_die(b, start, end, direction, die) ==
    UNION {normal_moves_from(b, idx, direction, die) : idx \in start .. (end - 1)}

\* bar entry at point `dest` for the side to move
bar_entry_moves(b, dest) ==
    LET checker_num == num_checkers_at_index(b, dest)
    IN  IF is_point_of_color(b, dest, b.turn) \/ checker_num = 0
        THEN {Move(-1, dest, BAR_ENTRY)}
        ELSE IF ~is_point_of_color(b, dest, b.turn) /\ checker_num = 1
             THEN {Move(-1, dest, BAR_ENTRY_PUT_ON_BAR)}
             ELSE {}

\* while index_of_last_checker >= 0 >= points[index_of_last_checker]: -= 1
RECURSIVE index_of_last_checker_white(_, _)
index_of_last_checker_white(b, idx) ==
    IF idx >= 0 /\ 0 >= b.points[idx]
    THEN index_of_last_checker_white(b, idx - 1)
    ELSE idx

\* while index_of_last_checker < 24 and points[index_of_last_checker] >= 0: += 1
RECURSIVE index_of_last_checker_black(_, _)
index_of_last_checker_black(b, idx) ==
    IF idx < NUM_PLAYABLE_POINTS /\ b.points[idx] >= 0
    THEN index_of_last_checker_black(b, idx + 1)
    ELSE idx

\* bear_off_moves_white bearing off the last checker whatever the die
bear_off_moves_white_any_die(b, die) ==
    LET index_of_last_checker == index_of_last_checker_white(b, 5)
    IN  get_normal_moves_for_die(b, 0, 6, -1, die)
        \cup {Move(index_of_last_checker, -1, BEAR_OFF)}
        \cup (IF b.points[die - 1] > 0
              THEN {Move(die - 1, -1, BEAR_OFF)} ELSE {})

\* bear_off_moves_white that looks for the checker of the die six points
\* too far out and takes an empty point for an occupied one
bear_off_moves_white_outer_point(b, die) ==
    LET index_of_last_checker == index_of_last_checker_white(b, 5)
    IN  get_normal_moves_for_die(b, 0, 6, -1, die)
        \cup (IF die >= index_of_last_checker + 1
              THEN {Move(index_of_last_checker, -1, BEAR_OFF)} ELSE {})
        \cup (IF b.points[die + 5] >= 0
              THEN {Move(die + 5, -1, BEAR_OFF)} ELSE {})

bear_off_moves_white(b, die) ==
    LET index_of_last_checker == index_of_last_checker_white(b, 5)
    IN  get_normal_moves_for_die(b, 0, 6, -1, die)
        \cup (IF die >= index_of_last_checker + 1
              THEN {Move(index_of_last_checker, -1, BEAR_OFF)} ELSE {})
        \cup (IF b.points[die - 1] > 0
              THEN {Move(die - 1, -1, BEAR_OFF)} ELSE {})

bear_off_moves_black(b, die) ==
    LET index_of_last_checker == index_of_last_checker_black(b, 18)
    IN  get_normal_moves_for_die(b, 18, NUM_PLAYABLE_POINTS, 1, die)
        \cup (IF die >= NUM_PLAYABLE_POINTS - index_of_last_checker
              THEN {Move(index_of_last_checker, -1, BEAR_OFF)} ELSE {})
        \cup (IF b.points[NUM_PLAYABLE_POINTS - die] < 0
              THEN {Move(NUM_PLAYABLE_POINTS - die, -1, BEAR_OFF)} ELSE {})

\* get_possible_moves_for_die where black enters one point too far
get_possible_moves_black_entry_one_off(b, die) ==
    IF game_state_for_current_turn(b) = GS_NORMAL
    THEN get_normal_moves_for_die(b, 0, NUM_PLAYABLE_POINTS,
                                  IF b.turn = WHITE THEN -1 ELSE 1, die)
    ELSE IF game_state_for_current_turn(b) = GS_BARRED_PIECES
    THEN IF b.turn = WHITE
         THEN bar_entry_moves(b, NUM_PLAYABLE_POINTS - die)
         ELSE bar_entry_moves(b, die)
    ELSE IF game_state_for_current_turn(b) = GS_BEAR_OFF
    THEN IF b.turn = WHITE
         THEN bear_off_moves_white(b, die)
         ELSE bear_off_moves_black(b, die)
    ELSE {}

get_possible_moves_for_die(b, die) ==
    IF game_state_for_current_turn(b) = GS_NORMAL
    THEN get_normal_moves_for_die(b, 0, NUM_PLAYABLE_POINTS,
                                  IF b.turn = WHITE THEN -1 ELSE 1, die)
    ELSE IF game_state_for_current_turn(b) = GS_BARRED_PIECES
    THEN IF b.turn = WHITE
         THEN bar_entry_moves(b, NUM_PLAYABLE_POINTS - die)
         ELSE bar_entry_moves(b, die - 1)
    ELSE IF game_state_for_current_turn(b) = GS_BEAR_OFF
    THEN IF b.turn = WHITE
         THEN bear_off_moves_white(b, die)
         ELSE bear_off_moves_black(b, die)
    ELSE {}

-----------------------------------------------------------------------------
(* BackgammonGame: apply and undo of one move *)

\* apply_move where a hit by an ordinary move does not put the checker
\* that was hit on the bar
apply_move_losing_hit_checker(b, mv) ==
    LET from_point == mv.from_point
        to_point == mv.to_point
    IN  IF mv.move_type = NORMAL
        THEN IF is_point_of_color(b, from_point, WHITE)
             THEN inc_point(dec_point(b, from_point), to_point)
             ELSE dec_point(inc_point(b, from_point), to_point)
        ELSE IF mv.move_type = BEAR_OFF
        THEN IF is_point_of_color(b, from_point, WHITE)
             THEN inc_offed(dec_point(b, from_point), WHITE)
             ELSE inc_offed(inc_point(b, from_point), BLACK)
        ELSE IF mv.move_type = BAR_ENTRY
        THEN IF index_in_home(to_point, BLACK)
             THEN inc_point(dec_barred(b, WHITE), to_point)
             ELSE dec_point(dec_barred(b, BLACK), to_point)
        ELSE IF mv.move_type = NORMAL_PUT_ON_BAR
        THEN IF is_point_of_color(b, from_point, WHITE)
             THEN inc_point(inc_point(dec_point(b, from_point), to_point), to_point)
             ELSE dec_point(dec_point(inc_point(b, from_point), to_point), to_point)
        ELSE IF mv.move_type = BAR_ENTRY_PUT_ON_BAR
        THEN IF index_in_home(to_point, BLACK)
             THEN inc_barred(inc_point(dec_barred(inc_point(b, to_point), WHITE),
                                       to_point), BLACK)
             ELSE inc_barred(dec_point(dec_barred(dec_point(b, to_point), BLACK),
                                       to_point), WHITE)
        ELSE b

\* apply_move where a bear-off counts the checker as offed and leaves it on
\* its point
apply_move_bear_off_keeps_checker(b, mv) ==
    LET from_point == mv.from_point
        to_point == mv.to_point
    IN  IF mv.move_type = NORMAL
        THEN IF is_point_of_color(b, from_point, WHITE)
             THEN inc_point(dec_point(b, from_point), to_point)
             ELSE dec_point(inc_point(b, from_point), to_point)
        ELSE IF mv.move_type = BEAR_OFF
        THEN IF is_point_of_color(b, from_point, WHITE)
             THEN inc_offed(b, WHITE)
             ELSE inc_offed(b, BLACK)
        ELSE IF mv.move_type = BAR_ENTRY
        THEN IF index_in_home(to_point, BLACK)
             THEN inc_point(dec_barred(b, WHITE), to_point)
             ELSE dec_point(dec_barred(b, BLACK), to_point)
        ELSE IF mv.move_type = NORMAL_PUT_ON_BAR
        THEN IF is_point_of_color(b, from_point, WHITE)
             THEN inc_barred(inc_point(inc_point(dec_point(b, from_point),
                                                 to_point), to_point), BLACK)
             ELSE inc_barred(dec_point(dec_point(inc_point(b, from_point),
                                                 to_point), to_point), WHITE)
        ELSE IF mv.move_type = BAR_ENTRY_PUT_ON_BAR
        THEN IF index_in_home(to_point, BLACK)
             THEN inc_barred(inc_point(dec_barred(inc_point(b, to_point), WHITE),
                                       to_point), BLACK)
             ELSE inc_barred(dec_point(dec_barred(dec_point(b, to_point), BLACK),
                                       to_point), WHITE)
        ELSE b

\* apply_move where an entry that hits nothing takes two checkers from the bar
apply_move_entry_takes_two(b, mv) ==
    LET from_point == mv.from_point
        to_point == mv.to_point
    IN  IF mv.move_type = NORMAL
        THEN IF is_point_of_color(b, from_point, WHITE)
             THEN inc_point(dec_point(b, from_point), to_point)
             ELSE dec_point(inc_point(b, from_point), to_point)
        ELSE IF mv.move_type = BEAR_OFF
        THEN IF is_point_of_color(b, from_point, WHITE)
             THEN inc_offed(dec_point(b, from_point), WHITE)
             ELSE inc_offed(inc_point(b, from_point), BLACK)
        ELSE IF mv.move_type = BAR_ENTRY
        THEN IF index_in_home(to_point, BLACK)
             THEN inc_point(dec_barred(dec_barred(b, WHITE), WHITE), to_point)
             ELSE dec_point(dec_barred(dec_barred(b, BLACK), BLACK), to_point)
        ELSE IF mv.move_type = NORMAL_PUT_ON_BAR
        THEN IF is_point_of_color(b, from_point, WHITE)
             THEN inc_barred(inc_point(inc_point(dec_point(b, from_point),
                                                 to_point), to_point), BLACK)
             ELSE inc_barred(dec_point(dec_point(inc_point(b, from_point),
                                                 to_point), to_point), WHITE)
        ELSE IF mv.move_type = BAR_ENTRY_PUT_ON_BAR
        THEN IF index_in_home(to_point, BLACK)
             THEN inc_barred(inc_point(dec_barred(inc_point(b, to_point), WHITE),
                                       to_point), BLACK)
             ELSE inc_barred(dec_point(dec_barred(dec_point(b, to_point), BLACK),
                                       to_point), WHITE)
        ELSE b

\* apply_move where a hit by an ordinary move takes the hit checker off the
\* point and does not put the moving checker on it
apply_move_hit_leaves_point_empty(b, mv) ==
    LET from_point == mv.from_point
        to_point == mv.to_point
    IN  IF mv.move_type = NORMAL
        THEN IF is_point_of_color(b, from_point, WHITE)
             THEN inc_point(dec_point(b, from_point), to_point)
             ELSE dec_point(inc_point(b, from_point), to_point)
        ELSE IF mv.move_type = BEAR_OFF
        THEN IF is_point_of_color(b, from_point, WHITE)
             THEN inc_offed(dec_point(b, from_point), WHITE)
             ELSE inc_offed(inc_point(b, from_point), BLACK)
        ELSE IF mv.move_type = BAR_ENTRY
        THEN IF index_in_home(to_point, BLACK)
             THEN inc_point(dec_barred(b, WHITE), to_point)
             ELSE dec_point(dec_barred(b, BLACK), to_point)
        ELSE IF mv.move_type = NORMAL_PUT_ON_BAR
        THEN IF is_point_of_color(b, from_point, WHITE)
             THEN inc_barred(inc_point(dec_point(b, from_point), to_point), BLACK)
             ELSE inc_barred(dec_point(inc_point(b, from_point), to_point), WHITE)
        ELSE IF mv.move_type = BAR_ENTRY_PUT_ON_BAR
        THEN IF index_in_home(to_point, BLACK)
             THEN inc_barred(inc_point(dec_barred(inc_point(b, to_point), WHITE),
                                       to_point), BLACK)
             ELSE inc_barred(dec_point(dec_barred(dec_point(b, to_point), BLACK),
                                       to_point), WHITE)
        ELSE b

\* __apply_move where an ordinary hit sends a checker of the side that moved
\* to the bar
apply_move_hit_bars_the_mover(b, mv) ==
    LET from_point == mv.from_point
        to_point == mv.to_point
    IN  IF mv.move_type = NORMAL
        THEN IF is_point_of_color(b, from_point, WHITE)
             THEN inc_point(dec_point(b, from_point), to_point)
             ELSE dec_point(inc_point(b, from_point), to_point)
        ELSE IF mv.move_type = BEAR_OFF
        THEN IF is_point_of_color(b, from_point, WHITE)
             THEN inc_offed(dec_point(b, from_point), WHITE)
             ELSE inc_offed(inc_point(b, from_point), BLACK)
        ELSE IF mv.move_type = BAR_ENTRY
        THEN IF index_in_home(to_point, BLACK)
             THEN inc_point(dec_barred(b, WHITE), to_point)
             ELSE dec_point(dec_barred(b, BLACK), to_point)
        ELSE IF mv.move_type = NORMAL_PUT_ON_BAR
        THEN IF is_point_of_color(b, from_point, WHITE)
             THEN inc_barred(inc_point(inc_point(dec_point(b, from_point),
                                                 to_point), to_point), WHITE)
             ELSE inc_barred(dec_point(dec_point(inc_point(b, from_point),
                                                 to_point), to_point), BLACK)
        ELSE IF mv.move_type = BAR_ENTRY_PUT_ON_BAR
        THEN IF index_in_home(to_point, BLACK)
             THEN inc_barred(inc_point(dec_barred(inc_point(b, to_point), WHITE),
                                       to_point), BLACK)
             ELSE inc_barred(dec_point(dec_barred(dec_point(b, to_point), BLACK),
                                       to_point), WHITE)
        ELSE b

apply_move(b, mv) ==
    LET from_point == mv.from_point
        to_point == mv.to_point
    IN  IF mv.move_type = NORMAL
        THEN IF is_point_of_color(b, from_point, WHITE)
             THEN inc_point(dec_point(b, from_point), to_point)
             ELSE dec_point(inc_point(b, from_point), to_point)
        ELSE IF mv.move_type = BEAR_OFF
        THEN IF is_point_of_color(b, from_point, WHITE)
             THEN inc_offed(dec_point(b, from_point), WHITE)
             ELSE inc_offed(inc_point(b, from_point), BLACK)
        ELSE IF mv.move_type = BAR_ENTRY
        THEN IF index_in_home(to_point, BLACK)
             THEN inc_point(dec_barred(b, WHITE), to_point)
             ELSE dec_point(dec_barred(b, BLACK), to_point)
        ELSE IF mv.move_type = NORMAL_PUT_ON_BAR
        THEN IF is_point_of_color(b, from_point, WHITE)
             THEN inc_barred(inc_point(inc_point(dec_point(b, from_point),
                                                 to_point), to_point), BLACK)
             ELSE inc_barred(dec_point(dec_point(inc_point(b, from_point),
                                                 to_point), to_point), WHITE)
        ELSE IF mv.move_type = BAR_ENTRY_PUT_ON_BAR
        THEN IF index_in_home(to_point, BLACK)
             THEN inc_barred(inc_point(dec_barred(inc_point(b, to_point), WHITE),
                                       to_point), BLACK)
             ELSE inc_barred(dec_point(dec_barred(dec_point(b, to_point), BLACK),
                                       to_point), WHITE)
        ELSE b

\* undo_move where the colour of an ordinary move is read at the origin
\* point, which the move may have left empty, instead of the destination
undo_move_colour_at_origin(b, mv) ==
    LET from_point == mv.from_point
        to_point == mv.to_point
    IN  IF mv.move_type = NORMAL
        THEN IF is_point_of_color(b, from_point, WHITE)
             THEN dec_point(inc_point(b, from_point), to_point)
             ELSE inc_point(dec_point(b, from_point), to_point)
        ELSE IF mv.move_type = BEAR_OFF
        THEN IF index_in_home(from_point, WHITE)
             THEN dec_offed(inc_point(b, from_point), WHITE)
             ELSE IF index_in_home(from_point, BLACK)
             THEN dec_offed(dec_point(b, from_point), BLACK)
             ELSE b
        ELSE IF mv.move_type = NORMAL_PUT_ON_BAR
        THEN IF is_point_of_color(b, to_point, WHITE)
             THEN dec_barred(dec_point(dec_point(inc_point(b, from_point),
                                                 to_point), to_point), BLACK)
             ELSE dec_barred(inc_point(inc_point(dec_point(b, from_point),
                                                 to_point), to_point), WHITE)
        ELSE IF mv.move_type = BAR_ENTRY_PUT_ON_BAR
        THEN IF is_point_of_color(b, to_point, WHITE)
             THEN inc_barred(dec_barred(dec_point(dec_point(b, to_point),
                                                  to_point), BLACK), WHITE)
             ELSE inc_barred(dec_barred(inc_point(inc_point(b, to_point),
                                                  to_point), WHITE), BLACK)
        ELSE IF mv.move_type = BAR_ENTRY
        THEN IF is_point_of_color(b, to_point, WHITE)
             THEN inc_barred(dec_point(b, to_point), WHITE)
             ELSE inc_barred(inc_point(b, to_point), BLACK)
        ELSE b

\* the ValueError of a bear-off undone from a point in neither home leaves
\* the board as it was
\* undo_move that takes the checker back from the offed count of the side
\* to move before it finds the point to be in neither home
undo_move_offed_before_test(b, mv) ==
    LET from_point == mv.from_point
        to_point == mv.to_point
    IN  IF mv.move_type = NORMAL
        THEN IF is_point_of_color(b, to_point, WHITE)
             THEN dec_point(inc_point(b, from_point), to_point)
             ELSE inc_point(dec_point(b, from_point), to_point)
        ELSE IF mv.move_type = BEAR_OFF
        THEN IF index_in_home(from_point, WHITE)
             THEN dec_offed(inc_point(b, from_point), WHITE)
             ELSE IF index_in_home(from_point, BLACK)
             THEN dec_offed(dec_point(b, from_point), BLACK)
             ELSE dec_offed(b, b.turn)
        ELSE IF mv.move_type = NORMAL_PUT_ON_BAR
        THEN IF is_point_of_color(b, to_point, WHITE)
             THEN dec_barred(dec_point(dec_point(inc_point(b, from_point),
                                                 to_point), to_point), BLACK)
             ELSE dec_barred(inc_point(inc_point(dec_point(b, from_point),
                                                 to_point), to_point), WHITE)
        ELSE IF mv.move_type = BAR_ENTRY_PUT_ON_BAR
        THEN IF is_point_of_color(b, to_point, WHITE)
             THEN inc_barred(dec_barred(dec_point(dec_point(b, to_point),
                                                  to_point), BLACK), WHITE)
             ELSE inc_barred(dec_barred(inc_point(inc_point(b, to_point),
                                                  to_point), WHITE), BLACK)
        ELSE IF mv.move_type = BAR_ENTRY
        THEN IF is_point_of_color(b, to_point, WHITE)
             THEN inc_barred(dec_point(b, to_point), WHITE)
             ELSE inc_barred(inc_point(b, to_point), BLACK)
        ELSE b

undo_move(b, mv) ==
    LET from_point == mv.from_point
        to_point == mv.to_point
    IN  IF mv.move_type = NORMAL
        THEN IF is_point_of_color(b, to_point, WHITE)
             THEN dec_point(inc_point(b, from_point), to_point)
             ELSE inc_point(dec_point(b, from_point), to_point)
        ELSE IF mv.move_type = BEAR_OFF
        THEN IF index_in_home(from_point, WHITE)
             THEN dec_offed(inc_point(b, from_point), WHITE)
             ELSE IF index_in_home(from_point, BLACK)
             THEN dec_offed(dec_point(b, from_point), BLACK)
             ELSE b
        ELSE IF mv.move_type = NORMAL_PUT_ON_BAR
        THEN IF is_point_of_color(b, to_point, WHITE)
             THEN dec_barred(dec_point(dec_point(inc_point(b, from_point),
                                                 to_point), to_point), BLACK)
             ELSE dec_barred(inc_point(inc_point(dec_point(b, from_point),
                                                 to_point), to_point), WHITE)
        ELSE IF mv.move_type = BAR_ENTRY_PUT_ON_BAR
        THEN IF is_point_of_color(b, to_point, WHITE)
             THEN inc_barred(dec_barred(dec_point(dec_point(b, to_point),
                                                  to_point), BLACK), WHITE)
             ELSE inc_barred(dec_barred(inc_point(inc_point(b, to_point),
                                                  to_point), WHITE), BLACK)
        ELSE IF mv.move_type = BAR_ENTRY
        THEN IF is_point_of_color(b, to_point, WHITE)
             THEN inc_barred(dec_point(b, to_point), WHITE)
             ELSE inc_barred(inc_point(b, to_point), BLACK)
        ELSE b

-----------------------------------------------------------------------------
(* BackgammonGame: the recursive search and get_possible_move_rolls *)

\* rank of a move in the order in which a set of moves is iterated.  Python
\* leaves the order of a set open; the model walks it by from_point, then
\* to_point, then kind.
MoveRank(mv) ==
    (mv.from_point + 1) * 1000 + (mv.to_point + 1) * 10
      + (CASE mv.move_type = NORMAL -> 0
           [] mv.move_type = NORMAL_PUT_ON_BAR -> 1
           [] mv.move_type = BAR_ENTRY -> 2
           [] mv.move_type = BAR_ENTRY_PUT_ON_BAR -> 3
           [] OTHER -> 4)

RECURSIVE iteration_order(_)
iteration_order(S) ==
    IF S = {} THEN <<>>
    ELSE LET first == CHOOSE m \in S : \A o \in S : MoveRank(m) <= MoveRank(o)
         IN  <<first>> \o iteration_order(S \ {first})

\* move_rolls.add(MoveRoll(moves)): MoveRoll defines neither __eq__ nor
\* __hash__, so each MoveRoll object is an element of its own and the set
\* is the list of the objects added.
add_move_roll(rolls, moves) == Append(rolls, moves)

\* __undo_move raises ValueError for a bear-off from a point in neither home
undo_raises(mv) ==
    /\ mv.move_type = BEAR_OFF
    /\ ~index_in_home(mv.from_point, WHITE)
    /\ ~index_in_home(mv.from_point, BLACK)

\* The result of a search call: the shared board as the call leaves it, the
\* MoveRolls recorded so far, the boards the search has passed through
\* (after each apply and each undo), and whether an exception left the call.
SearchResult(b, rolls, visited, raised) ==
    [board |-> b, move_rolls |-> rolls, visited |-> visited, raised |-> raised]

RECURSIVE get_move_rolls(_, _, _, _, _)
RECURSIVE for_each_move(_, _, _, _, _, _)

\* __get_move_rolls(die_roll, moves, move_rolls) on the shared board b
get_move_rolls(b, dice, moves, rolls, visited) ==
    IF Len(dice) = 0 /\ moves # <<>>
    THEN SearchResult(b, add_move_roll(rolls, moves), visited, FALSE)
    ELSE LET d == Head(dice)
             d_rs == Tail(dice)
             moves_one_die == get_possible_moves_for_die(b, d)
         IN  for_each_move(b, iteration_order(moves_one_die), d_rs, moves, rolls, visited)

\* the loop of __get_move_rolls without the undo after the recursive call
RECURSIVE for_each_move_without_undo(_, _, _, _, _, _)
for_each_move_without_undo(b, moves_one_die, d_rs, moves, rolls, visited) ==
    IF moves_one_die = <<>>
    THEN SearchResult(b, rolls, visited, FALSE)
    ELSE LET move == Head(moves_one_die)
             applied == apply_move(b, move)
             r == get_move_rolls(applied, d_rs, Append(moves, move), rolls,
                                 visited \cup {applied})
         IN  IF r.raised THEN r
             ELSE for_each_move_without_undo(r.board, Tail(moves_one_die), d_rs,
                                             moves, r.move_rolls, r.visited)

\* for move in moves_one_die: apply, recurse, undo; an exception ends the loop
for_each_move(b, moves_one_die, d_rs, moves, rolls, visited) ==
    IF moves_one_die = <<>>
    THEN SearchResult(b, rolls, visited, FALSE)
    ELSE LET move == Head(moves_one_die)
             applied == apply_move(b, move)
             r == get_move_rolls(applied, d_rs, Append(moves, move), rolls,
                                 visited \cup {applied})
             undone == undo_move(r.board, move)
         IN  IF r.raised THEN r
             ELSE IF undo_raises(move) THEN [r EXCEPT !.raised = TRUE]
             ELSE for_each_move(undone, Tail(moves_one_die), d_rs, moves,
                                r.move_rolls, r.visited \cup {undone})

\* get_move_rolls_calls where the call that starts a search passes all its
\* dice on
RECURSIVE get_move_rolls_calls_first_die_kept(_, _, _)
get_move_rolls_calls_first_die_kept(b, dice, moves) ==
    {[die_roll |-> dice, moves |-> moves]}
        \cup (IF Len(dice) = 0 /\ moves # <<>> THEN {}
              ELSE LET d == Head(dice)
                       d_rs == IF moves = <<>> THEN dice ELSE Tail(dice)
                   IN  UNION {get_move_rolls_calls_first_die_kept(
                                  apply_move(b, move), d_rs, Append(moves, move)) :
                              move \in get_possible_moves_for_die(b, d)})

\* The calls of __get_move_rolls that the call with the arguments die_roll =
\* dice and moves makes on the board b, itself included: each call either
\* records its moves and returns, or calls itself once for every move of its
\* first die, on the board with the move applied.
RECURSIVE get_move_rolls_calls(_, _, _)
get_move_rolls_calls(b, dice, moves) ==
    {[die_roll |-> dice, moves |-> moves]}
        \cup (IF Len(dice) = 0 /\ moves # <<>> THEN {}
              ELSE LET d == Head(dice)
                       d_rs == Tail(dice)
                   IN  UNION {get_move_rolls_calls(apply_move(b, move), d_rs,
                                                   Append(moves, move)) :
                              move \in get_possible_moves_for_die(b, d)})

\* the doubles search that tries the given number of dice only
doubles_without_retry(res, r1, count) ==
    get_move_rolls(res.board, [i \in 1 .. count |-> r1], <<>>,
                   res.move_rolls, res.visited)

\* while not move_rolls and count > 0: search with count copies of r1
RECURSIVE doubles_loop(_, _, _)
doubles_loop(res, r1, count) ==
    IF ~res.raised /\ res.move_rolls = <<>> /\ count > 0
    THEN doubles_loop(get_move_rolls(res.board, [i \in 1 .. count |-> r1], <<>>,
                                     res.move_rolls, res.visited),
                      r1, count - 1)
    ELSE res

\* for move in one_die_moves: move_rolls.add(MoveRoll([move]))
RECURSIVE add_one_move_rolls(_, _)
add_one_move_rolls(rolls, one_die_moves) ==
    IF one_die_moves = <<>> THEN rolls
    ELSE add_one_move_rolls(add_move_roll(rolls, <<Head(one_die_moves)>>),
                            Tail(one_die_moves))

\* the fallback that offers the one-move plays of the smaller die first
one_die_fallback_smaller_first(res, r1, r2) ==
    IF res.raised \/ res.move_rolls # <<>> THEN res
    ELSE LET with_r2 == add_one_move_rolls(res.move_rolls,
                            iteration_order(get_possible_moves_for_die(res.board, r2)))
         IN  IF with_r2 # <<>>
             THEN [res EXCEPT !.move_rolls = with_r2]
             ELSE [res EXCEPT !.move_rolls =
                      add_one_move_rolls(with_r2,
                          iteration_order(get_possible_moves_for_die(res.board, r1)))]

\* if not move_rolls: the one-move plays of r1, and if there are none, of r2
one_die_fallback(res, r1, r2) ==
    IF res.raised \/ res.move_rolls # <<>> THEN res
    ELSE LET with_r1 == add_one_move_rolls(res.move_rolls,
                            iteration_order(get_possible_moves_for_die(res.board, r1)))
         IN  IF with_r1 # <<>>
             THEN [res EXCEPT !.move_rolls = with_r1]
             ELSE [res EXCEPT !.move_rolls =
                      add_one_move_rolls(with_r1,
                          iteration_order(get_possible_moves_for_die(res.board, r2)))]

\* get_possible_move_rolls that starts a double with five dice
get_possible_move_rolls_five_dice(b, roll) ==
    LET r1 == IF roll[1] < roll[2] THEN roll[2] ELSE roll[1]
        r2 == IF roll[1] < roll[2] THEN roll[1] ELSE roll[2]
    IN  IF r1 = r2
        THEN doubles_loop(SearchResult(b, <<>>, {}, FALSE), r1, 5)
        ELSE LET first == get_move_rolls(b, <<r1, r2>>, <<>>, <<>>, {})
                 second == IF first.raised THEN first
                           ELSE get_move_rolls(first.board, <<r2, r1>>, <<>>,
                                               first.move_rolls, first.visited)
             IN  one_die_fallback(second, r1, r2)

\* get_possible_move_rolls that searches a non-double roll in one order only
get_possible_move_rolls_one_order(b, roll) ==
    LET r1 == IF roll[1] < roll[2] THEN roll[2] ELSE roll[1]
        r2 == IF roll[1] < roll[2] THEN roll[1] ELSE roll[2]
    IN  IF r1 = r2
        THEN doubles_loop(SearchResult(b, <<>>, {}, FALSE), r1, 4)
        ELSE one_die_fallback(get_move_rolls(b, <<r1, r2>>, <<>>, <<>>, {}), r1, r2)

get_possible_move_rolls(b, roll) ==
    LET r1 == IF roll[1] < roll[2] THEN roll[2] ELSE roll[1]
        r2 == IF roll[1] < roll[2] THEN roll[1] ELSE roll[2]
    IN  IF r1 = r2
        THEN doubles_loop(SearchResult(b, <<>>, {}, FALSE), r1, 4)
        ELSE LET first == get_move_rolls(b, <<r1, r2>>, <<>>, <<>>, {})
                 second == IF first.raised THEN first
                           ELSE get_move_rolls(first.board, <<r2, r1>>, <<>>,
                                               first.move_rolls, first.visited)
             IN  one_die_fallback(second, r1, r2)

\* for mv in mv.moves: __apply_move(mv)
RECURSIVE apply_moves(_, _)
apply_moves(b, moves) ==
    IF moves = <<>> THEN b ELSE apply_moves(apply_move(b, Head(moves)), Tail(moves))

apply_move_roll(b, mv) == IF mv = None THEN b ELSE apply_moves(b, mv[1])

\* for mv in reversed(mv_roll.moves): __undo_move(mv)
RECURSIVE undo_moves(_, _)
undo_moves(b, moves) ==
    IF moves = <<>> THEN b
    ELSE undo_moves(undo_move(b, moves[Len(moves)]), SubSeq(moves, 1, Len(moves) - 1))

undo_move_roll(b, mv_roll) == IF mv_roll = None THEN b ELSE undo_moves(b, mv_roll[1])

-----------------------------------------------------------------------------
(* Serializer: Board.serialize_board and Board.from_string.  A str is the
   sequence of its characters; a call either returns a value or raises. *)

Returned(x) == [raised |-> "", value |-> Some(x)]

Raised(error) == [raised |-> error, value |-> None]

DIGITS == <<"0", "1", "2", "3", "4", "5", "6", "7", "8", "9">>

IsDigit(c) == \E d \in 1 .. 10 : DIGITS[d] = c

DigitValue(c) == (CHOOSE d \in 1 .. 10 : DIGITS[d] = c) - 1

RECURSIVE str_digits(_)
str_digits(n) ==
    IF n < 10 THEN <<DIGITS[n + 1]>>
    ELSE str_digits(n \div 10) \o <<DIGITS[(n % 10) + 1]>>

\* the text of an int in an f-string
str(n) == IF n < 0 THEN <<"-">> \o str_digits(-n) ELSE str_digits(n)

RECURSIVE digits_value(_, _)
digits_value(s, acc) ==
    IF s = <<>> THEN acc
    ELSE digits_value(Tail(s), 10 * acc + DigitValue(Head(s)))

\* int(s) on a str of digits, signs, letters and separators: an optional
\* sign and one or more decimal digits; None stands for ValueError
int(s) ==
    LET signed == s # <<>> /\ s[1] \in {"-", "+"}
        digits == IF signed THEN Tail(s) ELSE s
    IN  IF digits = <<>> \/ \E i \in 1 .. Len(digits) : ~IsDigit(digits[i])
        THEN None
        ELSE Some(IF signed /\ s[1] = "-" THEN -digits_value(digits, 0)
                  ELSE digits_value(digits, 0))

\* s.split(sep) for a separator of one character: empty pieces are kept and
\* the result has at least one piece
RECURSIVE split(_, _)
split(s, sep) ==
    IF \E i \in 1 .. Len(s) : s[i] = sep
    THEN LET i == CHOOSE k \in 1 .. Len(s) :
                      s[k] = sep /\ \A j \in 1 .. (k - 1) : s[j] # sep
         IN  <<SubSeq(s, 1, i - 1)>> \o split(SubSeq(s, i + 1, Len(s)), sep)
    ELSE <<s>>

\* sep.join(parts)
RECURSIVE join(_, _)
join(sep, parts) ==
    IF parts = <<>> THEN <<>>
    ELSE IF Len(parts) = 1 THEN parts[1]
    ELSE parts[1] \o <<sep>> \o join(sep, Tail(parts))

get_str_repr(pl) == IF pl = WHITE THEN <<"w">> ELSE <<"b">>

\* get_player_from_str_repr that takes every text but "w" for black
get_player_from_str_repr_unchecked(str_repr) ==
    Some(IF str_repr = <<"w">> THEN WHITE ELSE BLACK)

\* None stands for ValueError
get_player_from_str_repr(str_repr) ==
    IF str_repr \notin {<<"b">>, <<"w">>} THEN None
    ELSE Some(IF str_repr = <<"w">> THEN WHITE ELSE BLACK)

is_empty_point(b, idx) == b.points[idx] = 0

\* the groups point-count-side of the non-empty points from idx upwards
RECURSIVE checkers_from(_, _)
checkers_from(b, idx) ==
    IF idx >= NUM_PLAYABLE_POINTS THEN <<>>
    ELSE IF ~is_empty_point(b, idx)
    THEN LET black == is_point_of_color(b, idx, BLACK)
             count == IF black THEN -b.points[idx] ELSE b.points[idx]
             side == get_str_repr(IF black THEN BLACK ELSE WHITE)
         IN  <<str(idx + 1) \o <<"-">> \o str(count) \o <<"-">> \o side>>
                 \o checkers_from(b, idx + 1)
    ELSE checkers_from(b, idx + 1)

serialize_board(b) ==
    join(" ", <<join("/", checkers_from(b, 0)),
                get_str_repr(b.turn),
                str(b.barred_white) \o <<" ">> \o str(b.barred_black),
                str(b.offed_white) \o <<" ">> \o str(b.offed_black)>>)

\* the loop of from_string over checkers_str.split("/"): the count is
\* converted first, then the point; a list index below zero counts from the
\* end of the list
RECURSIVE from_string_checkers(_, _)
from_string_checkers(points, parts) ==
    IF parts = <<>> THEN Returned(points)
    ELSE LET part == split(Head(parts), "-")
         IN  IF Len(part) # 3 THEN Raised("ValueError")
             ELSE LET point == int(part[1])
                      checker_count == int(part[2])
                      side == part[3]
                  IN  IF checker_count = None \/ point = None
                      THEN Raised("ValueError")
                      ELSE LET index == point[1] - 1
                               n == NUM_PLAYABLE_POINTS
                           IN  IF index < -n \/ index >= n THEN Raised("IndexError")
                               ELSE from_string_checkers(
                                        [points EXCEPT
                                            ![IF index < 0 THEN index + n ELSE index] =
                                                IF side = <<"w">> THEN checker_count[1]
                                                ELSE -checker_count[1]],
                                        Tail(parts))

from_string(serialized) ==
    LET fields == split(serialized, " ")
    IN  IF Len(fields) # 6 THEN Raised("ValueError")
        ELSE LET points == from_string_checkers([idx \in Points |-> 0],
                                                split(fields[1], "/"))
                 turn == get_player_from_str_repr(fields[2])
                 barred_white == int(fields[3])
                 barred_black == int(fields[4])
                 offed_white == int(fields[5])
                 offed_black == int(fields[6])
             IN  IF points.raised # "" THEN points
                 ELSE IF turn = None THEN Raised("ValueError")
                 ELSE IF None \in {barred_white, barred_black, offed_white, offed_black}
                 THEN Raised("ValueError")
                 ELSE Returned(NewBoard(points.value[1], turn[1], barred_white[1],
                                        barred_black[1], offed_white[1], offed_black[1]))

STARTING_BOARD_SERIALIZED_STARTING_WHITE ==
    <<"1", "-", "2", "-", "b", "/", "6", "-", "5", "-", "w", "/", "8", "-",
      "3", "-", "w", "/", "1", "2", "-", "5", "-", "b", "/", "1", "3", "-",
      "5", "-", "w", "/", "1", "7", "-", "3", "-", "b", "/", "1", "9", "-",
      "5", "-", "b", "/", "2", "4", "-", "2", "-", "w", " ", "w", " ", "0",
      " ", "0", " ", "0", " ", "0">>

STARTING_BOARD_SERIALIZED_STARTING_BLACK ==
    <<"1", "-", "2", "-", "b", "/", "6", "-", "5", "-", "w", "/", "8", "-",
      "3", "-", "w", "/", "1", "2", "-", "5", "-", "b", "/", "1", "3", "-",
      "5", "-", "w", "/", "1", "7", "-", "3", "-", "b", "/", "1", "9", "-",
      "5", "-", "b", "/", "2", "4", "-", "2", "-", "w", " ", "b", " ", "0",
      " ", "0", " ", "0", " ", "0">>

-----------------------------------------------------------------------------
(* Positions the game is constructed on *)

\* a point array from the (index, value) pairs of its non-empty points
Layout(S) ==
    [idx \in Points |->
        IF \E p \in S : p[1] = idx THEN (CHOOSE p \in S : p[1] = idx)[2] ELSE 0]

\* new_game where the black start is the white start
new_game_always_white(starting_player) ==
    from_string(STARTING_BOARD_SERIALIZED_STARTING_WHITE).value[1]

\* the game on the board that Board.from_string gives for the literal of the
\* starting player
new_game(starting_player) ==
    LET b == IF starting_player = WHITE
             THEN from_string(STARTING_BOARD_SERIALIZED_STARTING_WHITE).value[1]
             ELSE from_string(STARTING_BOARD_SERIALIZED_STARTING_BLACK).value[1]
    IN  NewBoard(b.points, b.turn, b.barred_white, b.barred_black,
                 b.offed_white, b.offed_black)

\* white bears off from its 2- and 3-point
BearOffWhite ==
    NewBoard(Layout({<<1, 2>>, <<2, 2>>, <<20, -1>>, <<23, -2>>}), WHITE, 0, 0, 11, 12)

\* black bears off with ordinary moves inside its home still possible
BearOffBlack ==
    NewBoard(Layout({<<5, 2>>, <<7, 1>>, <<18, -1>>, <<20, -2>>, <<23, -2>>}),
             BLACK, 0, 0, 12, 10)

\* the last three white checkers on the 1-point, three black checkers left
EndGame(turn) ==
    NewBoard(Layout({<<0, 3>>, <<21, -1>>, <<23, -2>>}), turn, 0, 0, 12, 12)

\* white has two checkers on the bar; black's home holds a blot and a block
BarredWhite ==
    NewBoard(Layout({<<0, -1>>, <<5, 2>>, <<12, 1>>, <<16, -2>>, <<18, -2>>, <<22, -1>>}),
             WHITE, 2, 0, 10, 9)

\* black has one checker on the bar; white's home holds a blot and blocks
BarredBlack ==
    NewBoard(Layout({<<2, 2>>, <<3, 1>>, <<4, 2>>, <<5, 2>>, <<12, 1>>, <<11, -1>>,
                     <<18, -2>>}),
             BLACK, 0, 1, 7, 11)

\* a lone white checker, hit late, runs home past black blocks and a blot
LoneWhite ==
    NewBoard(Layout({<<19, 1>>, <<18, -2>>, <<17, -1>>, <<16, -2>>, <<13, -2>>,
                     <<11, -2>>}),
             WHITE, 0, 0, 14, 6)

\* the same with the colours exchanged
LoneBlack ==
    NewBoard(Layout({<<4, -1>>, <<5, 2>>, <<6, 1>>, <<7, 2>>, <<10, 2>>, <<12, 2>>}),
             BLACK, 0, 0, 6, 14)

\* BackgammonGame.clone: a new game on a copy of the points; the constructor
\* is given offed.white for both offed counts
clone(b) ==
    NewBoard(b.points, b.turn, b.barred_white, b.barred_black, b.offed_white, b.offed_white)

\* expected_move_rolls1 of make_valid_moves_test_data: the fifteen plays the
\* test expects for white on the start position with the roll (1, 2)
expected_move_rolls1 ==
    {<<Move(23, 21, NORMAL), Move(21, 20, NORMAL)>>,
     <<Move(23, 21, NORMAL), Move(23, 22, NORMAL)>>,
     <<Move(5, 3, NORMAL), Move(3, 2, NORMAL)>>,
     <<Move(5, 3, NORMAL), Move(5, 4, NORMAL)>>,
     <<Move(7, 6, NORMAL), Move(5, 3, NORMAL)>>,
     <<Move(23, 22, NORMAL), Move(5, 3, NORMAL)>>,
     <<Move(5, 4, NORMAL), Move(7, 5, NORMAL)>>,
     <<Move(7, 6, NORMAL), Move(7, 5, NORMAL)>>,
     <<Move(23, 22, NORMAL), Move(7, 5, NORMAL)>>,
     <<Move(12, 10, NORMAL), Move(5, 4, NORMAL)>>,
     <<Move(12, 10, NORMAL), Move(7, 6, NORMAL)>>,
     <<Move(12, 10, NORMAL), Move(10, 9, NORMAL)>>,
     <<Move(23, 22, NORMAL), Move(12, 10, NORMAL)>>,
     <<Move(23, 21, NORMAL), Move(5, 4, NORMAL)>>,
     <<Move(23, 21, NORMAL), Move(7, 6, NORMAL)>>}

\* all white checkers are in white's home or offed, and black holds the
\* 1-point of that home with two checkers
HomeWithOpponent ==
    NewBoard(Layout({<<0, -2>>, <<1, 2>>, <<2, 2>>, <<20, -1>>}), WHITE, 0, 0, 11, 12)

\* white has thirteen checkers on its 6-point and two on the bar, facing
\* three black blocks in black's home
Stacked ==
    NewBoard(Layout({<<5, 13>>, <<12, -1>>, <<18, -5>>, <<19, -5>>, <<20, -4>>}),
             WHITE, 2, 0, 0, 0)

\* positions late in a game
LatePositions ==
    {BearOffWhite, BearOffBlack, EndGame(WHITE), EndGame(BLACK),
     BarredWhite, BarredBlack, LoneWhite, LoneBlack, HomeWithOpponent}

Positions == {new_game(WHITE), new_game(BLACK)} \cup LatePositions

-----------------------------------------------------------------------------
(* The turn loop *)

Init ==
    /\ board \in Positions
    /\ counter = 0
    /\ pc = "roll"
    /\ die_roll = <<>>
    /\ move_rolls = <<>>
    /\ action = None
    /\ todo = <<>>
    /\ done = FALSE
    /\ checker_counts = {}
    /\ serialized_board = <<>>
    /\ decoded = None
    /\ reward = 0
    /\ info = {}
    /\ agent_type = board.turn
    /\ first_roll = None
    /\ mv_rolls_hist = <<>>
    /\ move_rolls_in_effect = <<>>
    /\ cmd = <<>>
    /\ filtered_from = None
    /\ env_clone = None

\* if first_roll: roll = first_roll; first_roll = None
\* else: roll = env.roll_die(), (random.randint(1, 6), random.randint(1, 6))
\* The episodes followed are those of at most MaxPlies iterations and those
\* that have come to the counter limit.
RollDie ==
    /\ pc = "roll"
    /\ counter < MaxPlies \/ counter >= COUNTER_LIMIT
    /\ IF first_roll # None
       THEN die_roll' = first_roll[1]
       ELSE \E d1 \in Dice, d2 \in Dice : die_roll' = <<d1, d2>>
    /\ first_roll' = None
    /\ pc' = "generate"
    /\ UNCHANGED <<board, counter, move_rolls, action, todo, done, checker_counts,
                 serialized_board, decoded, reward, info, agent_type, agent_vars>>

\* actions = list(env.get_possible_move_rolls(roll)); checker_counts keeps
\* the totals of each colour on every board the search passed through.  An
\* exception that leaves the search leaves the loop.
GetPossibleMoveRolls ==
    /\ pc = "generate"
    /\ LET res == get_possible_move_rolls(board, die_roll)
       IN  /\ board' = res.board
           /\ move_rolls' = res.move_rolls
           /\ checker_counts' = {checkers_of_colours(v) : v \in res.visited}
           /\ pc' = IF res.raised THEN "raised" ELSE "agent"
    /\ UNCHANGED <<counter, die_roll, action, todo, done, serialized_board, decoded,
                 loop_vars, agent_vars>>

\* get_move without the test for an empty list: random.choice raises on it
AgentGetMoveWithoutEmptyTest ==
    /\ pc = "agent"
    /\ IF Len(move_rolls) = 0
       THEN action' = action /\ todo' = todo /\ pc' = "raised"
       ELSE /\ \E i \in 1 .. Len(move_rolls) :
                  i <= MaxChoice /\ action' = Some(move_rolls[i])
            /\ todo' = action'[1]
            /\ pc' = "step"
    /\ UNCHANGED <<board, counter, die_roll, move_rolls, done, checker_counts,
                   serialized_board, decoded, loop_vars, agent_vars>>

\* action = agent.get_move(actions, env, roll): None for an empty list,
\* otherwise one element of the list
AgentGetMove ==
    /\ pc = "agent"
    /\ IF Len(move_rolls) = 0
       THEN action' = None
       ELSE \E i \in 1 .. Len(move_rolls) :
                i <= MaxChoice /\ action' = Some(move_rolls[i])
    /\ todo' = IF action' = None THEN <<>> ELSE action'[1]
    /\ pc' = "step"
    /\ UNCHANGED <<board, counter, die_roll, move_rolls, done, checker_counts,
                 serialized_board, decoded, loop_vars, agent_vars>>

\* env.step(action), apply_move_roll: one __apply_move of the loop
ApplyMove ==
    /\ pc = "step"
    /\ todo # <<>>
    /\ board' = apply_move(board, Head(todo))
    /\ todo' = Tail(todo)
    /\ UNCHANGED <<counter, pc, die_roll, move_rolls, action, done, checker_counts,
                 serialized_board, decoded, loop_vars, agent_vars>>

\* step with the counter limit one step later
step_outcome_limit_one_later(b, n) ==
    IF winner(b) # None \/ n > COUNTER_LIMIT + 1
    THEN [done |-> TRUE,
          reward |-> IF winner(b) = Some(WHITE) THEN 1 ELSE 0,
          info |-> {<<"winner", winner(b)>>}]
    ELSE [done |-> is_game_over(b), reward |-> 0, info |-> {}]

\* step with a reward for either winner
step_outcome_reward_for_any_winner(b, n) ==
    IF winner(b) # None \/ n > COUNTER_LIMIT
    THEN [done |-> TRUE,
          reward |-> IF winner(b) # None THEN 1 ELSE 0,
          info |-> {<<"winner", winner(b)>>}]
    ELSE [done |-> is_game_over(b), reward |-> 0, info |-> {}]

\* reward, done and info of step for the board after apply_move_roll and
\* the counter before the increment; the dict info is the set of its items
step_outcome(b, n) ==
    IF winner(b) # None \/ n > COUNTER_LIMIT
    THEN [done |-> TRUE,
          reward |-> IF winner(b) = Some(WHITE) THEN 1 ELSE 0,
          info |-> {<<"winner", winner(b)>>}]
    ELSE [done |-> is_game_over(b), reward |-> 0, info |-> {}]

\* env.step(action), after apply_move_roll: reward, done, info and the counter
StepReturn ==
    /\ pc = "step"
    /\ todo = <<>>
    /\ LET outcome == step_outcome(board, counter)
       IN  /\ done' = outcome.done
           /\ reward' = outcome.reward
           /\ info' = outcome.info
    /\ counter' = counter + 1
    /\ pc' = "turn"
    /\ UNCHANGED <<board, die_roll, move_rolls, action, todo, checker_counts,
                 serialized_board, decoded, agent_type, first_roll, agent_vars>>

\* get_and_set_opponent_turn that leaves the turn with a side that passed
GetAndSetOpponentTurnAfterAMoveOnly ==
    /\ pc = "turn"
    /\ board' = IF action = None THEN board
                ELSE [board EXCEPT !.turn = IF @ = BLACK THEN WHITE ELSE BLACK]
    /\ pc' = IF done THEN "over" ELSE "roll"
    /\ die_roll' = <<>>
    /\ move_rolls' = <<>>
    /\ action' = None
    /\ checker_counts' = {}
    /\ agent_type' = board'.turn
    /\ UNCHANGED <<counter, todo, done, serialized_board, decoded, reward, info,
                 first_roll, agent_vars>>

\* agent_type = env.get_and_set_opponent_turn(); if done: break
\* This is the end of the loop body: roll, actions and action are assigned
\* anew before the next iteration reads them, so their values are dropped.
GetAndSetOpponentTurn ==
    /\ pc = "turn"
    /\ board' = [board EXCEPT !.turn = IF @ = BLACK THEN WHITE ELSE BLACK]
    /\ pc' = IF done THEN "over" ELSE "roll"
    /\ die_roll' = <<>>
    /\ move_rolls' = <<>>
    /\ action' = None
    /\ checker_counts' = {}
    /\ agent_type' = board'.turn
    /\ UNCHANGED <<counter, todo, done, serialized_board, decoded, reward, info,
                 first_roll, agent_vars>>

Next ==
    \/ RollDie
    \/ GetPossibleMoveRolls
    \/ AgentGetMove
    \/ ApplyMove
    \/ StepReturn
    \/ GetAndSetOpponentTurn

Spec == Init /\ [][Next]_vars

\* the game is constructed by new_game
StartPositions == {new_game(WHITE), new_game(BLACK)}

InitStart == Init /\ board \in StartPositions

SpecStart == InitStart /\ [][Next]_vars

\* the game is constructed on a late position
InitLate == Init /\ board \in LatePositions

SpecLate == InitLate /\ [][Next]_vars

\* positions where every kind of move is applied and undone by both
\* colours: entries from the bar, bear-offs, and hits by a running checker
ApplyUndoPositions ==
    {BearOffWhite, BearOffBlack, BarredWhite, BarredBlack, LoneWhite, LoneBlack}

InitApplyUndo == Init /\ board \in ApplyUndoPositions

SpecApplyUndo == InitApplyUndo /\ [][Next]_vars

\* positions with checkers on the bar, in the bear-off and at the end of a
\* game, and a position with a full stack
SearchPositions ==
    {BearOffWhite, BearOffBlack, EndGame(WHITE), EndGame(BLACK),
     BarredWhite, BarredBlack, HomeWithOpponent, Stacked}

InitSearch == Init /\ board \in SearchPositions

SpecSearch == InitSearch /\ [][Next]_vars

------------------------------------------------------------------------------
(* BackgammonGame.get_features: the entries are floats; an entry is kept as
   the fraction the code computes, numerator over denominator *)

Frac(num, den) == [num |-> num, den |-> den]

\* point_features where the colour of the point is not tested
point_features_any_colour(b, idx, player) ==
    IF ~is_empty_point(b, idx)
    THEN LET num_checkers == num_checkers_at_index(b, idx)
         IN  <<IF num_checkers = 1 THEN Frac(1, 1) ELSE Frac(0, 1),
               IF num_checkers >= 2 THEN Frac(1, 1) ELSE Frac(0, 1),
               IF num_checkers = 3 THEN Frac(1, 1) ELSE Frac(0, 1),
               IF num_checkers >= 4 THEN Frac(num_checkers - 3, 2) ELSE Frac(0, 1)>>
    ELSE <<Frac(0, 1), Frac(0, 1), Frac(0, 1), Frac(0, 1)>>

\* point_features = [0.0] * 4 and the four tests on num_checkers
point_features(b, idx, player) ==
    IF ~is_empty_point(b, idx) /\ is_point_of_color(b, idx, player)
    THEN LET num_checkers == num_checkers_at_index(b, idx)
         IN  <<IF num_checkers = 1 THEN Frac(1, 1) ELSE Frac(0, 1),
               IF num_checkers >= 2 THEN Frac(1, 1) ELSE Frac(0, 1),
               IF num_checkers = 3 THEN Frac(1, 1) ELSE Frac(0, 1),
               IF num_checkers >= 4 THEN Frac(num_checkers - 3, 2) ELSE Frac(0, 1)>>
    ELSE <<Frac(0, 1), Frac(0, 1), Frac(0, 1), Frac(0, 1)>>

\* for idx in range(NUM_PLAYABLE_POINTS): features.extend(point_features)
RECURSIVE player_features(_, _, _)
player_features(b, idx, player) ==
    IF idx >= NUM_PLAYABLE_POINTS THEN <<>>
    ELSE point_features(b, idx, player) \o player_features(b, idx + 1, player)

get_features(b, pl) ==
    player_features(b, 0, WHITE) \o player_features(b, 0, BLACK)
        \o <<Frac(b.barred_white, 2), Frac(b.barred_black, 2),
             Frac(b.offed_white, INIT_CHECKER_COUNT),
             Frac(b.offed_black, INIT_CHECKER_COUNT)>>
        \o (IF pl = WHITE THEN <<Frac(1, 1), Frac(0, 1)>>
                          ELSE <<Frac(0, 1), Frac(1, 1)>>)

------------------------------------------------------------------------------
(* TDAgent.get_move: the boards whose features the agent gives to its
   network, one for every candidate, in the order of the list *)

\* backgammon.agent.td_agent: for every move_roll apply_move_roll, evaluate,
\* undo_move_roll, all on the game that was passed in.  The state of the
\* loop is the board of the game, the boards evaluated so far, and whether
\* an undo raised and ended the loop.  The iterations first .. last are run
\* as their first half followed by their second half.
RECURSIVE td_agent_loop(_, _, _, _)
td_agent_loop(game, candidates, first, last) ==
    IF game.raised \/ first > last THEN game
    ELSE IF first = last
    THEN LET move_roll == candidates[first]
             applied == apply_move_roll(game.board, Some(move_roll))
         IN  [board |-> undo_move_roll(applied, Some(move_roll)),
              evaluated |-> Append(game.evaluated, applied),
              raised |-> \E k \in 1 .. Len(move_roll) : undo_raises(move_roll[k])]
    ELSE LET middle == (first + last) \div 2
         IN  td_agent_loop(td_agent_loop(game, candidates, first, middle),
                           candidates, middle + 1, last)

td_agent_get_move(b, candidates) ==
    td_agent_loop([board |-> b, evaluated |-> <<>>, raised |-> FALSE],
                  candidates, 1, Len(candidates)).evaluated

\* backgammon_geobadita.agent.td_agent: env_clone = backgammon_game.clone(),
\* then for every a env_clone.step(a), evaluate, env_clone.undo_move_roll(a)
td_agent_geobadita_get_move(b, candidates) == td_agent_get_move(clone(b), candidates)

-----------------------------------------------------------------------------
(* undo_move_roll called by a collaborator with a MoveRoll of its own: a
   bear-off from any point of the board *)

UndoInputs == {<<Move(from_point, -1, BEAR_OFF)>> : from_point \in Points}

\* reset that gives white the first move whatever the dice
reset_board_always_white(d1, d2) ==
    from_string(STARTING_BOARD_SERIALIZED_STARTING_WHITE).value[1]

\* reset, once the dice differ: the board decoded from the literal of the
\* side with the higher die
reset_board(d1, d2) ==
    IF d1 > d2
    THEN from_string(STARTING_BOARD_SERIALIZED_STARTING_WHITE).value[1]
    ELSE from_string(STARTING_BOARD_SERIALIZED_STARTING_BLACK).value[1]

\* env = BackgammonGame.new_game(), before env.reset()
InitReset ==
    /\ board = new_game(WHITE)
    /\ counter = 0
    /\ pc = "reset"
    /\ die_roll = <<>>
    /\ move_rolls = <<>>
    /\ action = None
    /\ todo = <<>>
    /\ done = FALSE
    /\ checker_counts = {}
    /\ serialized_board = <<>>
    /\ decoded = None
    /\ reward = 0
    /\ info = {}
    /\ agent_type = board.turn
    /\ first_roll = None
    /\ mv_rolls_hist = <<>>
    /\ move_rolls_in_effect = <<>>
    /\ cmd = <<>>
    /\ filtered_from = None
    /\ env_clone = None

\* reset: d1, d2 = self.roll_die(), before the loop and in the loop that
\* runs while d1 == d2
ResetRollDie ==
    /\ pc = "reset"
    /\ IF die_roll = <<>> THEN TRUE ELSE die_roll[1] = die_roll[2]
    /\ \E d1 \in Dice, d2 \in Dice : die_roll' = <<d1, d2>>
    /\ UNCHANGED <<board, counter, pc, move_rolls, action, todo, done, checker_counts,
                   serialized_board, decoded, loop_vars, agent_vars>>

\* reset, after the loop: the board, the counter and the values returned,
\* which the caller keeps as agent_type and first_roll
ResetReturn ==
    /\ pc = "reset"
    /\ die_roll # <<>>
    /\ die_roll[1] # die_roll[2]
    /\ board' = reset_board(die_roll[1], die_roll[2])
    /\ counter' = 0
    /\ agent_type' = board'.turn
    /\ first_roll' = Some(die_roll)
    /\ die_roll' = <<>>
    /\ pc' = "roll"
    /\ UNCHANGED <<move_rolls, action, todo, done, checker_counts, serialized_board,
                   decoded, reward, info, agent_vars>>

NextReset ==
    \/ ResetRollDie
    \/ ResetReturn
    \/ Next

SpecReset == InitReset /\ [][NextReset]_vars

-----------------------------------------------------------------------------
(* HumanAgent.get_move: the commands typed at the prompt *)

\* seq[idx] of a Python list: a negative index counts from the end
InRange(seq, idx) == -Len(seq) <= idx /\ idx < Len(seq)

\* seq[idx] that gives the first element whatever the index
PyAtFirst(seq, idx) == seq[1]

PyAt(seq, idx) == IF idx >= 0 THEN seq[idx + 1] ELSE seq[Len(seq) + idx + 1]

\* the inner loop of the filter for one MoveRoll: "match", "no match", or
\* "raised" when int(x) or int(y) is evaluated on a text that is no int;
\* int(y) is evaluated only for a move whose from_point is int(x)
RECURSIVE has_move(_, _, _)
has_move(moves, x, y) ==
    IF moves = <<>> THEN "no match"
    ELSE IF int(x) = None THEN "raised"
    ELSE IF Head(moves).from_point # int(x)[1] THEN has_move(Tail(moves), x, y)
    ELSE IF int(y) = None THEN "raised"
    ELSE IF Head(moves).to_point = int(y)[1] THEN "match"
    ELSE has_move(Tail(moves), x, y)

\* the branch of the command s, given cmd: flt, or an exception (IndexError
\* of cmd[1], ValueError of the unpacking or of int)
filter_move_rolls(rolls, c) ==
    IF Len(c) < 2 THEN Raised("IndexError")
    ELSE LET parts == split(c[2], ",")
         IN  IF Len(parts) # 2 THEN Raised("ValueError")
             ELSE IF \E i \in 1 .. Len(rolls) : has_move(rolls[i], parts[1], parts[2]) = "raised"
                  THEN Raised("ValueError")
                  ELSE Returned(SelectSeq(rolls,
                           LAMBDA mv_roll : has_move(mv_roll, parts[1], parts[2]) = "match"))

\* the branch of the command e, given cmd: idx, or an exception
execute_index(c) ==
    IF Len(c) < 2 THEN Raised("IndexError")
    ELSE IF int(c[2]) = None THEN Raised("ValueError")
    ELSE Returned(int(c[2])[1])

\* the lines typed at the prompt: filters on a move of the first and of the
\* last candidate and on a move no candidate has, u, e with indices inside
\* and outside the list, and lines that are no command
FilterPairs(rolls) ==
    {<<rolls[i][1].from_point, rolls[i][1].to_point>> : i \in {1, Len(rolls)}}
        \cup {<<0, 0>>}

ExecuteIndices == {-1, 0, 2, 40}

InputLines(rolls) ==
    {<<"s", " ">> \o str(p[1]) \o <<",">> \o str(p[2]) : p \in FilterPairs(rolls)}
        \cup {<<"e", " ">> \o str(i) : i \in ExecuteIndices}
        \cup {<<"u">>, <<"e">>, <<"e", " ", "x">>, <<"s", " ", "5">>,
               <<"s", " ", "x", ",", "7">>, <<"q">>, <<>>}

\* get_move up to the prompt: None for an empty list, otherwise the history
\* starts with the list given.  agents[Player.BLACK] is the HumanAgent.
HumanGetMove ==
    /\ pc = "agent"
    /\ agent_type = BLACK
    /\ IF Len(move_rolls) = 0
       THEN /\ action' = None
            /\ pc' = "step"
            /\ UNCHANGED <<mv_rolls_hist, move_rolls_in_effect, cmd, filtered_from>>
       ELSE /\ mv_rolls_hist' = <<move_rolls>>
            /\ move_rolls_in_effect' = move_rolls
            /\ cmd' = <<>>
            /\ filtered_from' = None
            /\ action' = action
            /\ pc' = "input"
    /\ todo' = <<>>
    /\ UNCHANGED <<board, counter, die_roll, move_rolls, done, checker_counts,
                   serialized_board, decoded, loop_vars, env_clone>>

\* the branch of the command u: move_rolls = mv_rolls_hist.pop(), and pop
\* returns the last list of the history
undo_filter(hist, rolls) ==
    IF Len(hist) > 1
    THEN [mv_rolls_hist |-> SubSeq(hist, 1, Len(hist) - 1),
          move_rolls |-> hist[Len(hist)]]
    ELSE [mv_rolls_hist |-> hist, move_rolls |-> rolls]

\* one pass of the while loop: a line is read and split, and its branch
\* runs.  An exception inside the try prints and leaves everything as it
\* was; e with an int leaves the loop, and move_rolls[idx] outside the try
\* returns the MoveRoll or raises IndexError.
HumanInput ==
    /\ pc = "input"
    /\ \E line \in InputLines(mv_rolls_hist[1]) :
          LET c == split(line, " ")
          IN  /\ cmd' = c
              /\ IF c[1] = <<"s">>
                 THEN /\ Len(mv_rolls_hist) <= MaxFilters
                      /\ LET flt == filter_move_rolls(move_rolls_in_effect, c)
                         IN  IF flt.raised # ""
                             THEN UNCHANGED <<mv_rolls_hist, move_rolls_in_effect,
                                              filtered_from>>
                             ELSE /\ mv_rolls_hist' = Append(mv_rolls_hist, flt.value[1])
                                  /\ move_rolls_in_effect' = flt.value[1]
                                  /\ filtered_from' = Some(move_rolls_in_effect)
                      /\ UNCHANGED <<action, todo, pc>>
                 ELSE IF c[1] = <<"u">>
                 THEN /\ LET undone == undo_filter(mv_rolls_hist, move_rolls_in_effect)
                         IN  /\ mv_rolls_hist' = undone.mv_rolls_hist
                             /\ move_rolls_in_effect' = undone.move_rolls
                      /\ filtered_from' = None
                      /\ UNCHANGED <<action, todo, pc>>
                 ELSE IF c[1] = <<"e">>
                 THEN LET idx == execute_index(c)
                      IN  IF idx.raised # ""
                          THEN UNCHANGED <<mv_rolls_hist, move_rolls_in_effect,
                                           filtered_from, action, todo, pc>>
                          ELSE IF InRange(move_rolls_in_effect, idx.value[1])
                          THEN /\ action' = Some(PyAt(move_rolls_in_effect, idx.value[1]))
                               /\ todo' = action'[1]
                               /\ pc' = "step"
                               /\ mv_rolls_hist' = <<>>
                               /\ move_rolls_in_effect' = <<>>
                               /\ filtered_from' = None
                          ELSE /\ pc' = "raised"
                               /\ UNCHANGED <<mv_rolls_hist, move_rolls_in_effect,
                                              filtered_from, action, todo>>
                 ELSE UNCHANGED <<mv_rolls_hist, move_rolls_in_effect, filtered_from,
                                  action, todo, pc>>
    /\ UNCHANGED <<board, counter, die_roll, move_rolls, done, checker_counts,
                   serialized_board, decoded, loop_vars, env_clone>>

-----------------------------------------------------------------------------
(* TDAgent.get_move of backgammon_geobadita: the candidates are tried on a
   clone of the game *)

\* clone that hands the constructor the point list of the original
clone_game_without_deepcopy(b) ==
    [board |-> clone(b), counter |-> 0, points_shared |-> TRUE,
     next |-> 1, stepped |-> FALSE, a_best |-> None]

\* env_clone = backgammon_game.clone(): a new game with counter 0 on a deep
\* copy of the points, so that no list is shared with the original; next is
\* the place of the for loop in move_rolls
clone_game(b) ==
    [board |-> clone(b), counter |-> 0, points_shared |-> FALSE,
     next |-> 1, stepped |-> FALSE, a_best |-> None]

\* the original after an operation on the clone: a point list shared with
\* the clone is the clone's
original_after(b, cloned) ==
    IF cloned.points_shared THEN [b EXCEPT !.points = cloned.board.points] ELSE b

\* get_move up to the for loop: None for an empty list.
\* agents[Player.WHITE] is the TDAgent.
TDAgentGetMove ==
    /\ pc = "agent"
    /\ agent_type = WHITE
    /\ IF Len(move_rolls) = 0
       THEN action' = None /\ pc' = "step" /\ env_clone' = env_clone
       ELSE action' = action /\ pc' = "explore" /\ env_clone' = Some(clone_game(board))
    /\ todo' = <<>>
    /\ UNCHANGED <<board, counter, die_roll, move_rolls, done, checker_counts,
                   serialized_board, decoded, loop_vars, mv_rolls_hist,
                   move_rolls_in_effect, cmd, filtered_from>>

\* env_clone.step(a) and the comparison of the value the network gives with
\* v_best: any candidate may become a_best; those followed are the first
\* MaxChoice
TDAgentCloneStep ==
    /\ pc = "explore"
    /\ ~env_clone[1].stepped
    /\ env_clone[1].next <= Len(move_rolls)
    /\ LET a == move_rolls[env_clone[1].next]
       IN  \E better \in BOOLEAN :
               /\ better => env_clone[1].next <= MaxChoice
               /\ env_clone' =
                      Some([env_clone[1] EXCEPT
                               !.board = apply_move_roll(@, Some(a)),
                               !.counter = @ + 1,
                               !.stepped = TRUE,
                               !.a_best = IF better THEN Some(a) ELSE @])
    /\ board' = original_after(board, env_clone'[1])
    /\ UNCHANGED <<counter, pc, die_roll, move_rolls, action, todo, done,
                   checker_counts, serialized_board, decoded, loop_vars,
                   mv_rolls_hist, move_rolls_in_effect, cmd, filtered_from>>

\* env_clone.undo_move_roll(a); env_clone.counter -= 1
TDAgentCloneUndo ==
    /\ pc = "explore"
    /\ env_clone[1].stepped
    /\ LET a == move_rolls[env_clone[1].next]
       IN  /\ env_clone' =
                  Some([env_clone[1] EXCEPT
                           !.board = undo_move_roll(@, Some(a)),
                           !.counter = @ - 1,
                           !.stepped = FALSE,
                           !.next = @ + 1])
           /\ pc' = IF \E k \in 1 .. Len(a) : undo_raises(a[k]) THEN "raised" ELSE pc
    /\ board' = original_after(board, env_clone'[1])
    /\ UNCHANGED <<counter, die_roll, move_rolls, action, todo, done,
                   checker_counts, serialized_board, decoded, loop_vars,
                   mv_rolls_hist, move_rolls_in_effect, cmd, filtered_from>>

\* return a_best, which is None when no value exceeded v_best = 0
TDAgentReturn ==
    /\ pc = "explore"
    /\ ~env_clone[1].stepped
    /\ env_clone[1].next > Len(move_rolls)
    /\ action' = env_clone[1].a_best
    /\ todo' = IF action' = None THEN <<>> ELSE action'[1]
    /\ env_clone' = None
    /\ pc' = "step"
    /\ UNCHANGED <<board, counter, die_roll, move_rolls, done, checker_counts,
                   serialized_board, decoded, loop_vars, mv_rolls_hist,
                   move_rolls_in_effect, cmd, filtered_from>>

\* RandomAgent.get_move, asked for black as in Model.test
RandomAgentGetMove == agent_type = BLACK /\ AgentGetMove

\* the turn loop of play_human and of Model.test: a TDAgent plays white, a
\* HumanAgent or a RandomAgent plays black.  The iteration followed is the
\* last one of an episode that ends at the counter limit.
AgentPositions == {BarredWhite, BarredBlack, BearOffBlack}

InitAgents ==
    /\ board \in AgentPositions
    /\ counter = COUNTER_LIMIT + 1
    /\ pc = "roll"
    /\ die_roll = <<>>
    /\ move_rolls = <<>>
    /\ action = None
    /\ todo = <<>>
    /\ done = FALSE
    /\ checker_counts = {}
    /\ serialized_board = <<>>
    /\ decoded = None
    /\ reward = 0
    /\ info = {}
    /\ agent_type = board.turn
    /\ first_roll = None
    /\ mv_rolls_hist = <<>>
    /\ move_rolls_in_effect = <<>>
    /\ cmd = <<>>
    /\ filtered_from = None
    /\ env_clone = None

NextAgents ==
    \/ RollDie
    \/ GetPossibleMoveRolls
    \/ TDAgentGetMove
    \/ TDAgentCloneStep
    \/ TDAgentCloneUndo
    \/ TDAgentReturn
    \/ RandomAgentGetMove
    \/ HumanGetMove
    \/ HumanInput
    \/ ApplyMove
    \/ StepReturn
    \/ GetAndSetOpponentTurn

SpecAgents == InitAgents /\ [][NextAgents]_vars

\* the turn loop entered from reset, or followed from a position late in a
\* game where the side to move has to pass on some rolls
EpisodePositions == {LoneWhite}

InitEpisode == InitReset \/ (Init /\ board \in EpisodePositions)

SpecEpisode == InitEpisode /\ [][NextReset]_vars

\* an episode that has come to the counter limit: the loop has run
\* COUNTER_LIMIT iterations, and the statements of the loop follow one
\* another without a pause
CounterLimitPositions == {EndGame(WHITE), EndGame(BLACK), LoneWhite}

InitCounterLimit ==
    /\ board \in CounterLimitPositions
    /\ counter = COUNTER_LIMIT
    /\ pc = "roll"
    /\ die_roll = <<>>
    /\ move_rolls = <<>>
    /\ action = None
    /\ todo = <<>>
    /\ done = FALSE
    /\ checker_counts = {}
    /\ serialized_board = <<>>
    /\ decoded = None
    /\ reward = 0
    /\ info = {}
    /\ agent_type = board.turn
    /\ first_roll = None
    /\ mv_rolls_hist = <<>>
    /\ move_rolls_in_effect = <<>>
    /\ cmd = <<>>
    /\ filtered_from = None
    /\ env_clone = None

\* the loop is one sequential program: a statement that can run does run.
\* GetPossibleMoveRolls can run exactly when pc = "generate", and its weak
\* fairness is written with that test in the place of ENABLED
FairGeneration ==
    []<>(pc # "generate") \/ []<><<GetPossibleMoveRolls>>_vars

SpecCounterLimit ==
    /\ InitCounterLimit
    /\ [][Next]_vars
    /\ WF_vars(RollDie \/ AgentGetMove \/ ApplyMove \/ StepReturn \/ GetAndSetOpponentTurn)
    /\ FairGeneration

\* the moves of a MoveRoll in the order undo_move_roll undoes them
RECURSIVE reversed(_)
reversed(moves) ==
    IF moves = <<>> THEN <<>>
    ELSE <<moves[Len(moves)]>> \o reversed(SubSeq(moves, 1, Len(moves) - 1))

InitUndo ==
    /\ board \in Positions
    /\ counter = 0
    /\ pc = "undo"
    /\ die_roll = <<>>
    /\ move_rolls = <<>>
    /\ \E moves \in UndoInputs : action = Some(moves) /\ todo = reversed(moves)
    /\ done = FALSE
    /\ checker_counts = {}
    /\ serialized_board = <<>>
    /\ decoded = None
    /\ reward = 0
    /\ info = {}
    /\ agent_type = board.turn
    /\ first_roll = None
    /\ mv_rolls_hist = <<>>
    /\ move_rolls_in_effect = <<>>
    /\ cmd = <<>>
    /\ filtered_from = None
    /\ env_clone = None

\* one __undo_move of the loop of undo_move_roll; the ValueError leaves
\* the loop
UndoMove ==
    /\ pc = "undo"
    /\ todo # <<>>
    /\ board' = undo_move(board, Head(todo))
    /\ IF undo_raises(Head(todo))
       THEN pc' = "raised" /\ todo' = todo
       ELSE pc' = pc /\ todo' = Tail(todo)
    /\ UNCHANGED <<counter, die_roll, move_rolls, action, done, checker_counts,
                   serialized_board, decoded, loop_vars, agent_vars>>

\* undo_move_roll returns
UndoReturn ==
    /\ pc = "undo"
    /\ todo = <<>>
    /\ pc' = "undone"
    /\ UNCHANGED <<board, counter, die_roll, move_rolls, action, todo, done,
                   checker_counts, serialized_board, decoded, loop_vars, agent_vars>>

NextUndo ==
    \/ UndoMove
    \/ UndoReturn

SpecUndo == InitUndo /\ [][NextUndo]_vars

-----------------------------------------------------------------------------
(* Serializing a board and decoding a text.  The text handed to from_string
   is the serialized board, or that text with one character replaced,
   removed or inserted. *)

\* no checker is left on a point: white has borne off all its checkers while
\* two black checkers wait on the bar
EmptyPoints == NewBoard(Layout({}), BLACK, 0, 2, 15, 13)

SerializedPositions == Positions \cup {EmptyPoints}

EditChars == {"0", "9", "x", "-", "/", " "}

Edits(text) ==
    {[text EXCEPT ![i] = c] : i \in 1 .. Len(text), c \in EditChars}
        \cup {SubSeq(text, 1, i - 1) \o SubSeq(text, i + 1, Len(text)) :
                 i \in 1 .. Len(text)}
        \cup {SubSeq(text, 1, i - 1) \o <<c>> \o SubSeq(text, i, Len(text)) :
                 i \in 1 .. (Len(text) + 1), c \in EditChars}

InitSerializer ==
    /\ board \in SerializedPositions
    /\ counter = 0
    /\ pc = "serialize"
    /\ die_roll = <<>>
    /\ move_rolls = <<>>
    /\ action = None
    /\ todo = <<>>
    /\ done = FALSE
    /\ checker_counts = {}
    /\ serialized_board = <<>>
    /\ decoded = None
    /\ reward = 0
    /\ info = {}
    /\ agent_type = board.turn
    /\ first_roll = None
    /\ mv_rolls_hist = <<>>
    /\ move_rolls_in_effect = <<>>
    /\ cmd = <<>>
    /\ filtered_from = None
    /\ env_clone = None

game_vars ==
    <<board, counter, die_roll, move_rolls, action, todo, done, checker_counts,
      loop_vars, agent_vars>>

\* serialized_game = game.serialize_board()
SerializeBoard ==
    /\ pc = "serialize"
    /\ serialized_board' = serialize_board(board)
    /\ pc' = "decode"
    /\ UNCHANGED <<game_vars, decoded>>

\* the caller hands from_string a text that is one edit away from a
\* serialized board
EditSerialized ==
    /\ pc = "decode"
    /\ serialized_board = serialize_board(board)
    /\ serialized_board' \in Edits(serialized_board)
    /\ UNCHANGED <<game_vars, pc, decoded>>

\* Board.from_string(serialized_game)
FromString ==
    /\ pc = "decode"
    /\ decoded' = from_string(serialized_board)
    /\ pc' = "decoded"
    /\ UNCHANGED <<game_vars, serialized_board>>

NextSerializer ==
    \/ SerializeBoard
    \/ EditSerialized
    \/ FromString

SpecSerializer == InitSerializer /\ [][NextSerializer]_vars

-----------------------------------------------------------------------------
(* Properties of the move generator, of apply and of undo.  At pc = "agent"  *)
(* get_possible_move_rolls has just returned: board is the board it was      *)
(* called on as the call left it, die_roll its argument, move_rolls its      *)
(* result.                                                                   *)

\* the set of the elements of a sequence
Range(s) == {s[i] : i \in 1 .. Len(s)}

\* the larger and the smaller die of the roll
LargerDie == IF die_roll[1] < die_roll[2] THEN die_roll[2] ELSE die_roll[1]

SmallerDie == IF die_roll[1] < die_roll[2] THEN die_roll[1] ELSE die_roll[2]

HitKinds == {NORMAL_PUT_ON_BAR, BAR_ENTRY_PUT_ON_BAR}

PlainKinds == {NORMAL, BAR_ENTRY}

BarKinds == {BAR_ENTRY, BAR_ENTRY_PUT_ON_BAR}

Opponent(color) == IF color = WHITE THEN BLACK ELSE WHITE

\* The sequences of moves that play the dice in the given order, each move
\* generated for its die on the position the earlier moves lead to.  Every
\* position is a value of its own: nothing is shared and nothing is undone.
RECURSIVE LegalSequences(_, _)
LegalSequences(b, dice) ==
    IF dice = <<>> THEN {<<>>}
    ELSE UNION {{<<m>> \o rest : rest \in LegalSequences(apply_move(b, m), Tail(dice))} :
                    m \in get_possible_moves_for_die(b, Head(dice))}

\* the position just before the j-th move of a returned MoveRoll is played
BoardBefore(moves, j) == apply_moves(board, SubSeq(moves, 1, j - 1))

\* C1: when get_possible_move_rolls returns, the board (points, turn, barred
\* and offed counts) is the board it was called on.
C1_SearchLeavesBoardUnchanged == [][pc = "generate" => board' = board]_vars

\* a search that applied and undid hits and two-move plays has returned
C1_Witness ==
    /\ pc = "agent"
    /\ \E i \in 1 .. Len(move_rolls) :
          /\ Len(move_rolls[i]) = 2
          /\ move_rolls[i][1].move_type \in HitKinds
    /\ Cardinality(checker_counts) > 0

\* C2: for every returned MoveRoll, apply_move_roll followed by
\* undo_move_roll restores the board exactly.
C2_ApplyThenUndoRestores ==
    pc = "agent" =>
        \A i \in 1 .. Len(move_rolls) :
            undo_move_roll(apply_move_roll(board, Some(move_rolls[i])),
                           Some(move_rolls[i])) = board

\* a returned MoveRoll hits with an ordinary move and moves the hitting
\* checker on, and applying it changes the board
C2_Witness ==
    /\ pc = "agent"
    /\ \E i \in 1 .. Len(move_rolls) :
          /\ Len(move_rolls[i]) >= 2
          /\ move_rolls[i][1].move_type = NORMAL_PUT_ON_BAR
          /\ move_rolls[i][2].from_point = move_rolls[i][1].to_point
          /\ apply_move_roll(board, Some(move_rolls[i])) # board

\* C3: in every state of the turn loop, between the single moves of a
\* MoveRoll and on every board inside the search, each colour has 15 checkers
\* on points, bar and offed pile together, 30 in all.
C3_CheckerCount ==
    /\ checkers_of_colours(board) = <<INIT_CHECKER_COUNT, INIT_CHECKER_COUNT>>
    /\ \A c \in checker_counts :
          /\ c[1] = INIT_CHECKER_COUNT
          /\ c[2] = INIT_CHECKER_COUNT
          /\ c[1] + c[2] = 2 * INIT_CHECKER_COUNT

\* between the two moves of a MoveRoll that began with a hit, after a search
C3_Witness ==
    /\ pc = "step"
    /\ todo # <<>>
    /\ Len(todo) < Len(action[1])
    /\ action[1][1].move_type \in HitKinds
    /\ checker_counts # {}

\* the two-move plays of the roll in either order of the dice
TwoMovePlays ==
    LegalSequences(board, <<LargerDie, SmallerDie>>)
        \cup LegalSequences(board, <<SmallerDie, LargerDie>>)

\* the one-move plays of a die
OneMovePlays(die) == {<<m>> : m \in get_possible_moves_for_die(board, die)}

\* C4: for a non-double roll with a two-move play, the result holds exactly
\* the legal two-move sequences of either order of the dice.
C4_NonDoubleTwoMovePlays ==
    (pc = "agent" /\ LargerDie # SmallerDie /\ TwoMovePlays # {}) =>
        Range(move_rolls) = TwoMovePlays

\* a non-double roll where each order of the dice has a play the other lacks
C4_Witness ==
    /\ pc = "agent"
    /\ LargerDie # SmallerDie
    /\ LegalSequences(board, <<LargerDie, SmallerDie>>)
           \ LegalSequences(board, <<SmallerDie, LargerDie>>) # {}
    /\ LegalSequences(board, <<SmallerDie, LargerDie>>)
           \ LegalSequences(board, <<LargerDie, SmallerDie>>) # {}
    /\ Len(move_rolls) > 0

\* C5: for a non-double roll without a two-move play in either order, the
\* result is exactly the one-move plays of the larger die if it has any,
\* otherwise exactly those of the smaller die, otherwise empty.
C5_NonDoubleOneDieFallback ==
    (pc = "agent" /\ LargerDie # SmallerDie /\ TwoMovePlays = {}) =>
        Range(move_rolls) = IF OneMovePlays(LargerDie) # {}
                            THEN OneMovePlays(LargerDie)
                            ELSE OneMovePlays(SmallerDie)

\* no two-move play, each die alone is playable, and only the larger die's
\* plays were returned
C5_Witness ==
    /\ pc = "agent"
    /\ LargerDie # SmallerDie
    /\ TwoMovePlays = {}
    /\ OneMovePlays(LargerDie) # {}
    /\ OneMovePlays(SmallerDie) # {}
    /\ OneMovePlays(SmallerDie) \cap OneMovePlays(LargerDie) = {}
    /\ Len(move_rolls) > 0

\* the plays of k successive moves of a double
DoublePlays(k) == LegalSequences(board, [i \in 1 .. k |-> LargerDie])

\* the largest number of successive moves of the double that can be played
MaxPlayable ==
    IF DoublePlays(4) # {} THEN 4
    ELSE IF DoublePlays(3) # {} THEN 3
    ELSE IF DoublePlays(2) # {} THEN 2
    ELSE IF DoublePlays(1) # {} THEN 1
    ELSE 0

\* C6: for a double, every returned MoveRoll has the length k of the longest
\* playable sequence, all sequences of that length are returned, and the
\* result is empty only when not even one move can be played.
C6_DoublesLongestPlays ==
    (pc = "agent" /\ LargerDie = SmallerDie) =>
        LET k == MaxPlayable
        IN  /\ \A i \in 1 .. Len(move_rolls) : Len(move_rolls[i]) = k
            /\ Range(move_rolls) = IF k = 0 THEN {} ELSE DoublePlays(k)
            /\ (move_rolls = <<>>) <=> (DoublePlays(1) = {})

\* a double of which exactly two moves can be played
C6_Witness ==
    /\ pc = "agent"
    /\ LargerDie = SmallerDie
    /\ MaxPlayable = 2
    /\ Len(move_rolls) > 0

\* the barred checkers of the side to move
MoverBarred(b) == IF b.turn = WHITE THEN b.barred_white ELSE b.barred_black

\* C7: a move of a returned MoveRoll that is played while the mover has a
\* barred checker is a bar entry (plain or hitting).
C7_BarEntryFirst ==
    pc = "agent" =>
        \A i \in 1 .. Len(move_rolls) : \A j \in 1 .. Len(move_rolls[i]) :
            MoverBarred(BoardBefore(move_rolls[i], j)) > 0 =>
                move_rolls[i][j].move_type \in BarKinds

\* a returned MoveRoll enters the last barred checker and then, the bar being
\* empty, plays an ordinary move
C7_Witness ==
    /\ pc = "agent"
    /\ MoverBarred(board) > 0
    /\ \E i \in 1 .. Len(move_rolls) :
          /\ Len(move_rolls[i]) = 2
          /\ move_rolls[i][1].move_type \in BarKinds
          /\ MoverBarred(BoardBefore(move_rolls[i], 2)) = 0
          /\ move_rolls[i][2].move_type \in {NORMAL, NORMAL_PUT_ON_BAR}

\* the opponent's checkers on a point
OpponentCheckers(b, idx) ==
    IF is_point_of_color(b, idx, Opponent(b.turn)) THEN num_checkers_at_index(b, idx)
    ELSE 0

\* the rule of the destination for an ordinary move or a bar entry played on b
DestinationRule(b, mv) ==
    mv.move_type \in HitKinds \cup PlainKinds =>
        /\ mv.to_point \in Points
        /\ OpponentCheckers(b, mv.to_point) < 2
        /\ (mv.move_type \in HitKinds) <=> (OpponentCheckers(b, mv.to_point) = 1)
        /\ (mv.move_type \in PlainKinds) <=> (OpponentCheckers(b, mv.to_point) = 0)

\* C8: no generated move lands on a point with two or more opponent
\* checkers; it has a hit kind iff its destination holds exactly one opponent
\* checker and a plain kind iff the destination is empty or the mover's.
C8_DestinationOccupancy ==
    /\ \A die \in Dice : \A mv \in get_possible_moves_for_die(board, die) :
          DestinationRule(board, mv)
    /\ pc = "agent" =>
          \A i \in 1 .. Len(move_rolls) : \A j \in 1 .. Len(move_rolls[i]) :
              DestinationRule(BoardBefore(move_rolls[i], j), move_rolls[i][j])

\* a returned MoveRoll holds a hit and a plain move while a point within
\* reach of a die is blocked by the opponent
C8_Witness ==
    /\ pc = "agent"
    /\ \E i \in 1 .. Len(move_rolls) :
          /\ \E j \in 1 .. Len(move_rolls[i]) : move_rolls[i][j].move_type \in HitKinds
          /\ \E j \in 1 .. Len(move_rolls[i]) : move_rolls[i][j].move_type \in PlainKinds
    /\ \E idx \in Points :
          /\ is_point_of_color(board, idx, board.turn)
          /\ idx + (IF board.turn = WHITE THEN -LargerDie ELSE LargerDie) \in Points
          /\ OpponentCheckers(board,
                 idx + (IF board.turn = WHITE THEN -LargerDie ELSE LargerDie)) >= 2

\* pip distance of a point from the exit of the side to move
PipDistance(b, idx) == IF b.turn = WHITE THEN idx + 1 ELSE NUM_PLAYABLE_POINTS - idx

\* the mover has a checker on the point
MoverChecker(b, idx) == idx \in Points /\ is_point_of_color(b, idx, b.turn)

\* idx is the mover's occupied home point farthest from the exit
FarthestHomeChecker(b, idx) ==
    /\ MoverChecker(b, idx)
    /\ index_in_home(idx, b.turn)
    /\ \A other \in get_home_board_range(b.turn) :
          MoverChecker(b, other) => PipDistance(b, other) <= PipDistance(b, idx)

C10_NoIdenticalMoveRolls ==
    pc = "agent" =>
        \A i \in 1 .. Len(move_rolls) : \A j \in 1 .. Len(move_rolls) :
            i # j => move_rolls[i] # move_rolls[j]

\* the offed checkers of the side to move
MoverOffed(b) == IF b.turn = WHITE THEN b.offed_white ELSE b.offed_black

\* every checker of the side to move that is on a point is on a point of the
\* mover's home range, and none is on the bar
MoverConfinedToHome(b) ==
    /\ MoverBarred(b) = 0
    /\ \A idx \in Points :
          is_point_of_color(b, idx, b.turn) => idx \in get_home_board_range(b.turn)

\* the four rules of the classifier in their priority
StateByRules(b) ==
    IF b.offed_white = INIT_CHECKER_COUNT \/ b.offed_black = INIT_CHECKER_COUNT
    THEN GS_OVER
    ELSE IF MoverBarred(b) > 0 THEN GS_BARRED_PIECES
    ELSE IF MoverConfinedToHome(b) THEN GS_BEAR_OFF
    ELSE GS_NORMAL

\* C11: game_state_for_current_turn is OVER if a colour has 15 checkers
\* offed, otherwise BARRED_PIECES if the mover has a barred checker, otherwise
\* BEAR_OFF if all the mover's checkers are in its home range or offed,
\* otherwise NORMAL, on every board the game passes through.
C11_ClassifierPriority == game_state_for_current_turn(board) = StateByRules(board)

\* C12: with the game not over and no barred checker of the mover, the
\* classifier returns BEAR_OFF when all the mover's checkers are in its home
\* range or offed, opponent checkers in that range or not, and NORMAL when a
\* mover checker is on a point outside the range.
C12_BearOffRegime ==
    (~is_game_over(board) /\ MoverBarred(board) = 0) =>
        /\ MoverConfinedToHome(board)
              => game_state_for_current_turn(board) = GS_BEAR_OFF
        /\ ~MoverConfinedToHome(board)
              => game_state_for_current_turn(board) = GS_NORMAL

\* the positions that playing each of the given move lists on the board gives
ResultingPositions(plays) == {apply_move_roll(board, Some(moves)) : moves \in plays}

\* white is to move on the start position and the roll (1, 2) was searched
StartWhiteOneTwo ==
    /\ pc = "agent"
    /\ board = new_game(WHITE)
    /\ {die_roll[1], die_roll[2]} = {1, 2}

\* C13: white on the start position with the roll (1, 2) gets a non-empty set
\* of two-move MoveRolls whose resulting positions are those of all plays of
\* die 1 then die 2 and die 2 then die 1, and those of the fifteen plays the
\* test lists.
C13_StartRollOneTwo ==
    StartWhiteOneTwo =>
        /\ move_rolls # <<>>
        /\ \A i \in 1 .. Len(move_rolls) : Len(move_rolls[i]) = 2
        /\ ResultingPositions(Range(move_rolls)) = ResultingPositions(TwoMovePlays)
        /\ ResultingPositions(Range(move_rolls)) = ResultingPositions(expected_move_rolls1)
        /\ Cardinality(expected_move_rolls1) = 15

\* the search has returned for white on the start position with (1, 2), and
\* points 4 and 1 steps ahead of white checkers are blocked by black
C13_Witness ==
    /\ StartWhiteOneTwo
    /\ Len(move_rolls) > 0
    /\ OpponentCheckers(board, 11) >= 2

Sign(color) == IF color = WHITE THEN 1 ELSE -1
Barred(b, color) == IF color = WHITE THEN b.barred_white ELSE b.barred_black
Offed(b, color) == IF color = WHITE THEN b.offed_white ELSE b.offed_black

\* the mover's checkers on a point of b, 0 where the point is not the mover's
CheckersOf(b, idx, color) ==
    IF is_point_of_color(b, idx, color) THEN num_checkers_at_index(b, idx) ELSE 0

\* the points a move of each kind touches
TouchedPoints(mv) ==
    IF mv.move_type \in {NORMAL, NORMAL_PUT_ON_BAR} THEN {mv.from_point, mv.to_point}
    ELSE IF mv.move_type = BEAR_OFF THEN {mv.from_point}
    ELSE {mv.to_point}

\* the effect the kind of mv prescribes, between the position b it is played
\* on by the colour mover and the position a it gives
MoveEffect(b, mv, a, mover) ==
    LET opp == Opponent(mover)
        leaves_origin ==
            CheckersOf(a, mv.from_point, mover) = CheckersOf(b, mv.from_point, mover) - 1
        arrives == CheckersOf(a, mv.to_point, mover) = CheckersOf(b, mv.to_point, mover) + 1
        alone == CheckersOf(a, mv.to_point, mover) = 1
        same_barred(color) == Barred(a, color) = Barred(b, color)
        same_offed(color) == Offed(a, color) = Offed(b, color)
    IN  /\ a.turn = b.turn
        /\ \A idx \in Points \ TouchedPoints(mv) : a.points[idx] = b.points[idx]
        /\ same_offed(opp)
        /\ CASE mv.move_type = NORMAL ->
                  /\ leaves_origin /\ arrives
                  /\ same_barred(mover) /\ same_barred(opp) /\ same_offed(mover)
             [] mv.move_type = NORMAL_PUT_ON_BAR ->
                  /\ leaves_origin /\ arrives /\ alone
                  /\ Barred(a, opp) = Barred(b, opp) + 1
                  /\ same_barred(mover) /\ same_offed(mover)
             [] mv.move_type = BAR_ENTRY ->
                  /\ Barred(a, mover) = Barred(b, mover) - 1
                  /\ arrives
                  /\ same_barred(opp) /\ same_offed(mover)
             [] mv.move_type = BAR_ENTRY_PUT_ON_BAR ->
                  /\ Barred(a, mover) = Barred(b, mover) - 1
                  /\ arrives /\ alone
                  /\ Barred(a, opp) = Barred(b, opp) + 1
                  /\ same_offed(mover)
             [] mv.move_type = BEAR_OFF ->
                  /\ leaves_origin
                  /\ Offed(a, mover) = Offed(b, mover) + 1
                  /\ same_barred(mover) /\ same_barred(opp)

\* C14: each move of a returned MoveRoll, applied to the position the moves
\* before it lead to, changes the fields its kind prescribes and nothing
\* else: origin, destination, barred and offed counts as the kind says, all
\* other points, the other counts and the turn unchanged.
C14_ApplyMoveEffect ==
    pc = "agent" =>
        \A i \in 1 .. Len(move_rolls) : \A j \in 1 .. Len(move_rolls[i]) :
            LET b == BoardBefore(move_rolls[i], j)
            IN  MoveEffect(b, move_rolls[i][j], apply_move(b, move_rolls[i][j]), board.turn)

\* a returned MoveRoll starts by entering from the bar with a hit, which
\* changes the position
C14_Witness ==
    /\ pc = "agent"
    /\ \E i \in 1 .. Len(move_rolls) :
          /\ move_rolls[i][1].move_type = BAR_ENTRY_PUT_ON_BAR
          /\ apply_move(board, move_rolls[i][1]) # board

\* C15: the clone of a game equals the game in every field: the points, the
\* turn, both barred counts and both offed counts.
C15_CloneEqualsOriginal == clone(board) = board

\* the text is the serialization of the board, unaltered
Unaltered == serialized_board = serialize_board(board)

\* C16: decoding the serialization of a board gives a board with equal
\* points, turn, barred and offed counts, also when no point holds a
\* checker; and the start position with white to move serializes to the
\* literal of the starting board.
C16_RoundTrip ==
    /\ (pc = "decoded" /\ Unaltered) => decoded = Returned(board)
    /\ (pc = "decode" /\ Unaltered /\ board = new_game(WHITE))
          => serialized_board = STARTING_BOARD_SERIALIZED_STARTING_WHITE

\* the round trip on the boards that have a checker on some point
RoundTripOfOccupiedBoards ==
    (pc = "decoded" /\ Unaltered /\ \E idx \in Points : board.points[idx] # 0)
        => decoded = Returned(board)

\* an optional sign and one or more decimal digits
IsIntegerText(t) ==
    LET digits == IF t # <<>> /\ t[1] \in {"-", "+"} THEN Tail(t) ELSE t
    IN  digits # <<>> /\ \A i \in 1 .. Len(digits) : IsDigit(digits[i])

\* the six fields and the point groups of a text
Fields(text) == split(text, " ")
Groups(text) == split(Fields(text)[1], "/")

WrongFieldCount(text) == Len(Fields(text)) # 6

WrongGroupShape(text) ==
    \E k \in 1 .. Len(Groups(text)) : Len(split(Groups(text)[k], "-")) # 3

WrongTurnLetter(text) ==
    Len(Fields(text)) >= 2 /\ Fields(text)[2] \notin {<<"w">>, <<"b">>}

NonIntegerCount(text) ==
    \E k \in 3 .. 6 : k <= Len(Fields(text)) /\ ~IsIntegerText(Fields(text)[k])

NonIntegerInGroup(text) ==
    \E k \in 1 .. Len(Groups(text)) :
        LET part == split(Groups(text)[k], "-")
        IN  Len(part) = 3 /\ (~IsIntegerText(part[1]) \/ ~IsIntegerText(part[2]))

Malformed(text) ==
    \/ WrongFieldCount(text)
    \/ WrongGroupShape(text)
    \/ WrongTurnLetter(text)
    \/ NonIntegerCount(text)
    \/ NonIntegerInGroup(text)

\* C17: decoding a text with a wrong number of fields, a point group that
\* is not three parts, a turn letter other than w or b, or a point, count,
\* barred or offed value that is not an integer raises and gives no Board.
C17_MalformedTextRaises ==
    (pc = "decoded" /\ Malformed(serialized_board))
        => decoded.raised # "" /\ decoded.value = None

\* a text whose only fault is its turn letter was decoded and ValueError
\* was raised
C17_Witness ==
    /\ pc = "decoded"
    /\ WrongTurnLetter(serialized_board)
    /\ ~WrongFieldCount(serialized_board)
    /\ ~WrongGroupShape(serialized_board)
    /\ ~NonIntegerCount(serialized_board)
    /\ ~NonIntegerInGroup(serialized_board)
    /\ decoded = Raised("ValueError")

\* a group of a text that has the right shape names a point outside 1..24
\* or a colour that is neither w nor b
WrongGroupContent(text) ==
    \E k \in 1 .. Len(Groups(text)) :
        LET part == split(Groups(text)[k], "-")
        IN  \/ int(part[1])[1] \notin 1 .. NUM_PLAYABLE_POINTS
            \/ part[3] \notin {<<"w">>, <<"b">>}

\* C18: a text that is well-formed in shape but has a point number outside
\* 1..24 or a colour letter that is neither w nor b makes from_string
\* raise; no Board comes out of it.
C18_GroupContentChecked ==
    (pc = "decoded" /\ ~Malformed(serialized_board)
                    /\ WrongGroupContent(serialized_board))
        => decoded.raised # "" /\ decoded.value = None

\* the game is on the board that new_game gave for starting_player
NewGameOf(starting_player) ==
    pc = "roll" /\ counter = 0 /\ board = new_game(starting_player)

\* C19: a new game has -2 on point 0, 5 on 5, 3 on 7, -5 on 11, 5 on 12,
\* -3 on 16, -5 on 18, 2 on 23 and 0 on every other point, no barred and no
\* offed checker, and the turn of the starting player asked for; the game
\* for a black start differs from the game for a white start in the turn
\* only.
C19_NewGameLayout ==
    \A starting_player \in Player :
        NewGameOf(starting_player) =>
            /\ board.points =
                  Layout({<<0, -2>>, <<5, 5>>, <<7, 3>>, <<11, -5>>, <<12, 5>>,
                          <<16, -3>>, <<18, -5>>, <<23, 2>>})
            /\ board.barred_white = 0 /\ board.barred_black = 0
            /\ board.offed_white = 0 /\ board.offed_black = 0
            /\ board.turn = starting_player
            /\ [board EXCEPT !.turn = WHITE] = new_game(WHITE)

\* a game was started with black to move
C19_Witness == NewGameOf(BLACK) /\ board.turn = BLACK /\ board.points[23] = 2

\* neither die of the roll has a move on the board
NoLegalMove == OneMovePlays(die_roll[1]) = {} /\ OneMovePlays(die_roll[2]) = {}

\* C20: a turn without a legal play goes through without an error: the
\* search returns nothing and leaves the board alone, the agent answers None
\* to the empty list, applying, undoing and stepping None change neither
\* points nor counts nor turn, and the turn then passes to the other side.
C20_ForcedPass ==
    [][/\ (pc = "generate" /\ NoLegalMove)
             => /\ ~get_possible_move_rolls(board, die_roll).raised
                /\ move_rolls' = <<>>
                /\ board' = board
       /\ (pc = "agent" /\ move_rolls = <<>>)
             => action' = None /\ board' = board /\ pc' = "step"
       /\ (pc = "step" /\ action = None)
             => /\ apply_move_roll(board, action) = board
                /\ undo_move_roll(board, action) = board
                /\ board' = board
                /\ pc' = "turn"
       /\ (pc = "turn" /\ action = None)
             => /\ board' = [board EXCEPT !.turn = Opponent(board.turn)]
                /\ ~done => pc' = "roll"]_vars

\* the mover has checkers on the bar and no entry for the roll; None went
\* through step, and the turn is about to pass
C20_Witness ==
    /\ pc = "turn"
    /\ action = None
    /\ move_rolls = <<>>
    /\ MoverBarred(board) > 0
    /\ NoLegalMove
    /\ ~done

\* The steps of the search of b with the dice in the given order: every
\* move that is generated, with its die and the position it is generated
\* and applied on.
RECURSIVE SearchedSteps(_, _)
SearchedSteps(b, dice) ==
    IF dice = <<>> THEN {}
    ELSE UNION {{[position |-> b, die |-> Head(dice), move |-> m]}
                    \cup SearchedSteps(apply_move(b, m), Tail(dice)) :
                m \in get_possible_moves_for_die(b, Head(dice))}

\* the steps of the search of the roll: four dice of a double (the searches
\* with fewer dice walk the upper levels of the same tree), or both orders
\* of the two dice
StepsOfRoll ==
    IF LargerDie = SmallerDie
    THEN SearchedSteps(board, <<LargerDie, LargerDie, LargerDie, LargerDie>>)
    ELSE SearchedSteps(board, <<LargerDie, SmallerDie>>)
            \cup SearchedSteps(board, <<SmallerDie, LargerDie>>)

\* the indices of points that generation computes from the die or from the
\* scan for the last checker, on a position in the given state
ComputedIndices(b, die) ==
    LET state == game_state_for_current_turn(b)
    IN  IF state = GS_BARRED_PIECES
        THEN {IF b.turn = WHITE THEN NUM_PLAYABLE_POINTS - die ELSE die - 1}
        ELSE IF state = GS_BEAR_OFF /\ b.turn = WHITE
        THEN {die - 1} \cup {k \in 0 .. 5 : k >= index_of_last_checker_white(b, 5)}
        ELSE IF state = GS_BEAR_OFF
        THEN {NUM_PLAYABLE_POINTS - die}
                \cup {k \in 18 .. 23 : k <= index_of_last_checker_black(b, 18)}
        ELSE {}

\* C21: generation raises nothing: the search returns to the loop, every
\* index it computes is a point 0..23, every generated bear-off leaves from
\* a point of the mover's home, and no generated bear-off is one that undo
\* refuses.
C21_GenerationRaisesNothing ==
    /\ pc # "raised"
    /\ pc = "agent" =>
          \A step \in StepsOfRoll :
              /\ ComputedIndices(step.position, step.die) \subseteq Points
              /\ step.move.move_type = BEAR_OFF =>
                    /\ step.move.from_point \in get_home_board_range(step.position.turn)
                    /\ ~undo_raises(step.move)

\* the search has generated and undone a bear-off on a position that a
\* first move of the same turn led to
C21_Witness ==
    /\ pc = "agent"
    /\ \E step \in StepsOfRoll :
          /\ step.move.move_type = BEAR_OFF
          /\ step.position # board

\* the next move to undo is a bear-off from a point of neither home
UndoOfOuterBearOff ==
    /\ pc = "undo"
    /\ todo # <<>>
    /\ Head(todo).move_type = BEAR_OFF
    /\ Head(todo).from_point \in 6 .. 17

\* C22: undoing a bear-off whose from_point lies in neither home (6..17)
\* raises, and the undo that raises changes no point, no barred count and
\* no offed count.
C22_UndoOuterBearOffRaises ==
    [][UndoOfOuterBearOff => pc' = "raised" /\ board' = board]_vars

\* the undo of a bear-off from point 11 has raised on a board that has
\* offed checkers to take back
C22_Witness ==
    /\ pc = "raised"
    /\ Head(todo) = Move(11, -1, BEAR_OFF)
    /\ board.offed_white > 0
    /\ board.offed_black > 0

\* the move can be a move of die d for the side to move: d points ahead, the
\* entry point of d, or a bear-off from a point no farther than d
DieFits(mv, d) ==
    IF mv.move_type \in {NORMAL, NORMAL_PUT_ON_BAR}
    THEN mv.to_point = mv.from_point + d * (IF board.turn = WHITE THEN -1 ELSE 1)
    ELSE IF mv.move_type \in BarKinds
    THEN mv.to_point = (IF board.turn = WHITE THEN NUM_PLAYABLE_POINTS - d ELSE d - 1)
    ELSE PipDistance(board, mv.from_point) <= d

\* C23: a returned MoveRoll has between one and four moves; for a
\* non-double roll it has at most two and they use each die at most once;
\* for a double every move uses the doubled value.
C23_MoveRollLengthAndDice ==
    pc = "agent" =>
        \A i \in 1 .. Len(move_rolls) :
            LET moves == move_rolls[i]
            IN  /\ Len(moves) \in 1 .. 4
                /\ LargerDie = SmallerDie =>
                      \A j \in 1 .. Len(moves) : DieFits(moves[j], LargerDie)
                /\ LargerDie # SmallerDie =>
                      /\ Len(moves) <= 2
                      /\ Len(moves) = 1 =>
                            DieFits(moves[1], LargerDie) \/ DieFits(moves[1], SmallerDie)
                      /\ Len(moves) = 2 =>
                            \/ DieFits(moves[1], LargerDie) /\ DieFits(moves[2], SmallerDie)
                            \/ DieFits(moves[1], SmallerDie) /\ DieFits(moves[2], LargerDie)

\* a double was played with four moves, and a MoveRoll of the double holds
\* a bear-off
C23_Witness ==
    /\ pc = "agent"
    /\ LargerDie = SmallerDie
    /\ \E i \in 1 .. Len(move_rolls) :
          /\ Len(move_rolls[i]) = 4
          /\ \E j \in 1 .. 4 : move_rolls[i][j].move_type = BEAR_OFF

\* the dice of the searches that get_possible_move_rolls starts for the
\* roll: four to one dice of a double, or the two orders of the pair
TopLevelDice ==
    IF LargerDie = SmallerDie
    THEN {[i \in 1 .. count |-> LargerDie] : count \in 1 .. 4}
    ELSE {<<LargerDie, SmallerDie>>, <<SmallerDie, LargerDie>>}

\* C24: generation terminates: the calls of a search are finitely many, a
\* call is at most 4 levels below the call that starts the search (2 for a
\* non-double), and every level has taken exactly one die from the dice of
\* the level above.
C24_SearchDepthBounded ==
    pc = "agent" =>
        \A dice \in TopLevelDice :
            LET calls == get_move_rolls_calls(board, dice, <<>>)
            IN  /\ IsFiniteSet(calls)
                /\ \A call \in calls :
                      /\ Len(call.moves) <= (IF LargerDie = SmallerDie THEN 4 ELSE 2)
                      /\ Len(call.moves) + Len(call.die_roll) = Len(dice)
                      /\ call.die_roll = SubSeq(dice, Len(call.moves) + 1, Len(dice))

\* the search of a double went four levels deep and returned
C24_Witness ==
    /\ pc = "agent"
    /\ LargerDie = SmallerDie
    /\ \E call \in get_move_rolls_calls(board, <<LargerDie, LargerDie, LargerDie,
                                                 LargerDie>>, <<>>) :
          Len(call.moves) = 4 /\ call.die_roll = <<>>

\* C25: the game is over exactly when a side has 15 checkers borne off, the
\* winner is that side and nobody otherwise, an over position has no
\* MoveRoll for any roll, and a generated MoveRoll that bears off the 15th
\* checker has no move after it.
C25_GameEndsAtFifteenOffed ==
    /\ is_game_over(board) <=> \E color \in Player : Offed(board, color) = 15
    /\ \A color \in Player : winner(board) = Some(color) <=> Offed(board, color) = 15
    /\ winner(board) = None <=> \A color \in Player : Offed(board, color) # 15
    /\ (\E color \in Player : Offed(board, color) = 15) =>
          \A d1, d2 \in Dice :
              LET res == get_possible_move_rolls(board, <<d1, d2>>)
              IN  res.move_rolls = <<>> /\ res.board = board /\ ~res.raised
    /\ pc = "agent" =>
          \A i \in 1 .. Len(move_rolls) : \A j \in 1 .. Len(move_rolls[i]) :
              (\E color \in Player :
                   Offed(apply_moves(board, SubSeq(move_rolls[i], 1, j)), color) = 15)
                  => j = Len(move_rolls[i])

\* the 15th white checker was borne off by the third move of a double, and
\* the turn loop has stopped on the over position with black to move
C25_Witness ==
    /\ pc = "over"
    /\ board.offed_white = 15
    /\ board.turn = BLACK
    /\ checkers_on_points(board, 0, BLACK) > 0

\* every point holds at most 15 checkers and the four counts are in 0 .. 15
CountsInRange(b) ==
    /\ \A idx \in Points : Abs(b.points[idx]) <= INIT_CHECKER_COUNT
    /\ \A color \in Player :
          /\ Barred(b, color) \in 0 .. INIT_CHECKER_COUNT
          /\ Offed(b, color) \in 0 .. INIT_CHECKER_COUNT

\* C26: on the board of every state of the game, and on every board inside
\* the search before and after the apply of a generated move, every point
\* holds at most 15 checkers and the barred and offed counts of both
\* colours are in 0 .. 15.
C26_CountsInRange ==
    /\ CountsInRange(board)
    /\ pc = "agent" =>
          \A step \in StepsOfRoll :
              /\ CountsInRange(step.position)
              /\ CountsInRange(apply_move(step.position, step.move))

\* the search entered the only checker the mover had on the bar
C26_Witness ==
    /\ pc = "agent"
    /\ \E step \in StepsOfRoll :
          /\ step.move.move_type \in BarKinds
          /\ Barred(step.position, step.position.turn) = 1
          /\ Barred(apply_move(step.position, step.move), step.position.turn) = 0

\* two entries have the same value
SameValue(x, y) == x.num * y.den = y.num * x.den

\* the four entries of point idx for the colour color in a feature vector
EntriesOfPoint(features, color, idx) ==
    LET first == (IF color = WHITE THEN 0 ELSE 4 * NUM_PLAYABLE_POINTS) + 4 * idx
    IN  SubSeq(features, first + 1, first + 4)

\* C27: for every board and either colour get_features has 198 entries:
\* four per point for white, then four per point for black, then
\* barred.white / 2, barred.black / 2, offed.white / 15, offed.black / 15,
\* then 1, 0 for WHITE and 0, 1 for BLACK; the four entries of a point are
\* all 0 for a colour that does not own the point, and not all 0 for the
\* colour that owns it.
C27_FeatureLayout ==
    \A pl \in Player : \A features \in {get_features(board, pl)} :
        /\ Len(features) = 198
        /\ \A color \in Player : \A idx \in Points :
              (\A k \in 1 .. 4 :
                   SameValue(EntriesOfPoint(features, color, idx)[k], Frac(0, 1)))
                  <=> ~is_point_of_color(board, idx, color)
        /\ SameValue(features[193], Frac(board.barred_white, 2))
        /\ SameValue(features[194], Frac(board.barred_black, 2))
        /\ SameValue(features[195], Frac(board.offed_white, 15))
        /\ SameValue(features[196], Frac(board.offed_black, 15))
        /\ SameValue(features[197], IF pl = WHITE THEN Frac(1, 1) ELSE Frac(0, 1))
        /\ SameValue(features[198], IF pl = WHITE THEN Frac(0, 1) ELSE Frac(1, 1))

\* step has applied a MoveRoll and takes the features of a board with
\* points of both colours, a checker on the bar and checkers borne off
C27_Witness ==
    /\ pc = "step"
    /\ todo = <<>>
    /\ action # None
    /\ board.barred_white > 0
    /\ board.offed_white > 0
    /\ board.offed_black > 0
    /\ \E i, j \in Points : board.points[i] > 0 /\ board.points[j] < 0

\* the geometry of a move generated on b for the die
MoveGeometry(b, die, mv) ==
    /\ mv.move_type \in {NORMAL, NORMAL_PUT_ON_BAR} =>
          /\ mv.from_point \in Points
          /\ is_point_of_color(b, mv.from_point, b.turn)
          /\ mv.to_point = (IF b.turn = WHITE THEN mv.from_point - die
                                              ELSE mv.from_point + die)
          /\ 0 <= mv.to_point /\ mv.to_point < 24
    /\ mv.move_type \in BarKinds =>
          /\ mv.from_point = -1
          /\ mv.to_point = (IF b.turn = WHITE THEN 24 - die ELSE die - 1)
    /\ mv.move_type = BEAR_OFF => mv.to_point = -1

\* C28: every move generated for a die d, on the board of any state for each
\* of the six dice and at each step of the search of the roll, has the
\* geometry of its kind: an ordinary move (hitting or not) leaves a point of
\* the side to move and lands exactly d points on in the mover's direction,
\* on the board; a bar entry (hitting or not) has from_point = -1 and lands
\* on 24 - d for white and d - 1 for black; a bear-off has to_point = -1.
C28_MoveGeometry ==
    /\ \A die \in Dice : \A mv \in get_possible_moves_for_die(board, die) :
          MoveGeometry(board, die, mv)
    /\ pc = "agent" =>
          \A step \in StepsOfRoll : MoveGeometry(step.position, step.die, step.move)

\* black entered from the bar and then made an ordinary move in the search
C28_Witness ==
    /\ pc = "agent"
    /\ \E step \in StepsOfRoll :
          step.position.turn = BLACK /\ step.move.move_type \in BarKinds
    /\ \E step \in StepsOfRoll :
          /\ step.position.turn = BLACK
          /\ step.position # board
          /\ step.move.move_type \in {NORMAL, NORMAL_PUT_ON_BAR}

\* the colour whose branch __apply_move takes for mv on b
ApplyColour(b, mv) ==
    IF mv.move_type \in BarKinds
    THEN IF index_in_home(mv.to_point, BLACK) THEN WHITE ELSE BLACK
    ELSE IF is_point_of_color(b, mv.from_point, WHITE) THEN WHITE ELSE BLACK

\* the colour whose branch __undo_move takes for mv on b, the board after the
\* apply of mv; no colour for a bear-off from outside both homes
UndoColour(b, mv) ==
    IF mv.move_type = BEAR_OFF
    THEN IF index_in_home(mv.from_point, WHITE) THEN Some(WHITE)
         ELSE IF index_in_home(mv.from_point, BLACK) THEN Some(BLACK)
         ELSE None
    ELSE IF is_point_of_color(b, mv.to_point, WHITE) THEN Some(WHITE) ELSE Some(BLACK)

\* apply and undo of mv on b act for the side to move
ColourIsMover(b, mv) ==
    /\ ApplyColour(b, mv) = b.turn
    /\ UndoColour(apply_move(b, mv), mv) = Some(ApplyColour(b, mv))
    /\ mv.move_type # BEAR_OFF => OpponentCheckers(apply_move(b, mv), mv.to_point) = 0

\* C29: for every generated move, at each step of the search and at each
\* apply of the chosen MoveRoll, the colour that apply infers from the board
\* is the side to move, the colour that undo infers from the board after the
\* apply is the same colour, and the point the move lands on holds no
\* checker of the other side afterwards.
C29_InferredColourIsMover ==
    /\ pc = "agent" => \A step \in StepsOfRoll : ColourIsMover(step.position, step.move)
    /\ pc = "step" /\ todo # <<>> => ColourIsMover(board, Head(todo))

\* the chosen MoveRoll, with black to move, is about to apply a hit
C29_Witness ==
    /\ pc = "step"
    /\ todo # <<>>
    /\ board.turn = BLACK
    /\ Head(todo).move_type \in HitKinds

\* equal points, barred counts and offed counts
SamePosition(b1, b2) ==
    /\ b1.points = b2.points
    /\ \A color \in Player :
          Barred(b1, color) = Barred(b2, color) /\ Offed(b1, color) = Offed(b2, color)

\* the agent that applies and undoes on the game itself evaluates, for
\* every candidate, the position of the game with the candidate applied
TDAgentOnGameEvaluatesCanonical ==
    pc = "agent" =>
        LET evaluated == td_agent_get_move(board, move_rolls)
        IN  /\ Len(evaluated) = Len(move_rolls)
            /\ \A i \in 1 .. Len(move_rolls) :
                  SamePosition(evaluated[i], apply_moves(board, move_rolls[i]))

\* C30: for every candidate of the list, the position TDAgent.get_move
\* evaluates has the points, barred counts and offed counts of the position
\* of the game with that candidate applied, for the agent that works on the
\* game itself and for the agent that works on a clone.
C30_TDAgentEvaluatesCanonical ==
    /\ TDAgentOnGameEvaluatesCanonical
    /\ pc = "agent" =>
          LET evaluated == td_agent_geobadita_get_move(board, move_rolls)
          IN  /\ Len(evaluated) = Len(move_rolls)
              /\ \A i \in 1 .. Len(move_rolls) :
                    SamePosition(evaluated[i], apply_moves(board, move_rolls[i]))

-----------------------------------------------------------------------------
(* step: the counter, done, the reward and info *)

FifteenOffed(b) ==
    b.offed_white = INIT_CHECKER_COUNT \/ b.offed_black = INIT_CHECKER_COUNT

WhiteHasWon(b) ==
    b.offed_white = INIT_CHECKER_COUNT /\ b.offed_black # INIT_CHECKER_COUNT

\* what step has returned, read when the loop has taken its results: the
\* counter is one more than the value step tested
StepReturned ==
    pc = "turn" =>
        /\ done <=> (FifteenOffed(board) \/ counter - 1 > 10000)
        /\ reward = (IF done /\ WhiteHasWon(board) THEN 1 ELSE 0)
        /\ (done /\ ~FifteenOffed(board)) => info = {<<"winner", None>>}

\* the steps of step: each move of mv is applied in turn, and the return
\* adds exactly 1 to the counter; nothing else changes the counter
StepApplies ==
    /\ (pc = "step" /\ todo # <<>>) =>
           (board' = apply_move(board, Head(todo)) /\ counter' = counter)
    /\ (pc = "step" /\ todo = <<>>) => (counter' = counter + 1 /\ board' = board)
    /\ pc # "step" => counter' = counter
    /\ (pc = "agent" /\ pc' = "step") =>
           todo' = (IF action' = None THEN <<>> ELSE action'[1])

\* C34: step(mv) applies mv when it is not None, adds exactly 1 to the step
\* counter, and returns done = true exactly when a side has 15 offed
\* checkers after the apply or the counter before the increment exceeds
\* 10000; the reward is 1 exactly when done is true and WHITE is the winner
\* and 0 otherwise, and at the counter limit with no winner info['winner']
\* is None.
C34_StepOutcome == [](StepReturned) /\ [][StepApplies]_vars

\* step has applied a move and returned done at the counter limit with no
\* winner
C34_Witness ==
    /\ pc = "turn"
    /\ done
    /\ reward = 0
    /\ info = {<<"winner", None>>}
    /\ action # None
    /\ counter = 10002

-----------------------------------------------------------------------------
(* The end of an episode *)

ExactlyOneHasFifteenOffed(b) ==
    (b.offed_white = INIT_CHECKER_COUNT) # (b.offed_black = INIT_CHECKER_COUNT)

ColourWithFifteenOffed(b) ==
    IF b.offed_white = INIT_CHECKER_COUNT THEN WHITE ELSE BLACK

\* the counter is the number of calls of step since reset: the 10002nd
\* call reports done, no call follows a call that reported done, and a
\* loop that has stopped on a call before the 10002nd has a winner
EpisodeEndState ==
    /\ counter <= 10002
    /\ (pc = "turn" /\ counter = 10002) => done
    /\ pc = "over" => done
    /\ (pc = "over" /\ counter < 10002) =>
           /\ ExactlyOneHasFifteenOffed(board)
           /\ winner(board) = Some(ColourWithFifteenOffed(board))
           /\ info = {<<"winner", Some(ColourWithFifteenOffed(board))>>}

\* if done: break, at the end of the iteration whose step reported done
StopsWhenDone ==
    /\ (pc = "turn" /\ done) => pc' = "over"
    /\ pc = "over" => pc' = "over"

-----------------------------------------------------------------------------
(* reset and the first roll *)

StartingLayout ==
    Layout({<<0, -2>>, <<5, 5>>, <<7, 3>>, <<11, -5>>, <<12, 5>>,
            <<16, -3>>, <<18, -5>>, <<23, 2>>})

\* the side that d1 > d2 gives the first move to
FirstToMove(roll) == IF roll[1] > roll[2] THEN WHITE ELSE BLACK

\* reset has returned and the loop has not yet taken the first roll
AfterReset == pc = "roll" /\ first_roll # None

\* the state reset leaves, and the roll and turn of the first iteration
ResetState ==
    /\ AfterReset =>
           /\ first_roll[1][1] # first_roll[1][2]
           /\ board.points = StartingLayout
           /\ board.barred_white = 0 /\ board.barred_black = 0
           /\ board.offed_white = 0 /\ board.offed_black = 0
           /\ board.turn = FirstToMove(first_roll[1])
           /\ agent_type = board.turn
           /\ counter = 0
    /\ (pc \in {"generate", "agent", "step"} /\ counter = 0) =>
           /\ die_roll[1] # die_roll[2]
           /\ board.turn = FirstToMove(die_roll)
           /\ first_roll = None

\* reset leaves its loop only with two different dice, and the first
\* iteration of the turn loop takes the roll reset returned
FirstRollUsed ==
    /\ (pc = "reset" /\ pc' # "reset") =>
           (die_roll[1] # die_roll[2] /\ first_roll' = Some(die_roll))
    /\ (pc = "reset" /\ die_roll # <<>> /\ die_roll[1] = die_roll[2]) => pc' = "reset"
    /\ (pc = "roll" /\ first_roll # None) =>
           (die_roll' = first_roll[1] /\ first_roll' = None)

\* C37: reset rerolls until the two dice differ and returns a first roll
\* (d1, d2) with d1 # d2; it sets the board to the starting layout with the
\* turn WHITE if d1 > d2 and BLACK otherwise and the step counter to 0, and
\* returns that turn; the turn loop uses this first roll, not a fresh one,
\* for the first move.
C37_ResetAndFirstRoll == [](ResetState) /\ [][FirstRollUsed]_vars

\* reset returned the roll (2, 5): black moves first, and the loop has
\* generated the plays of the first iteration for that roll
C37_Witness ==
    /\ pc = "agent"
    /\ counter = 0
    /\ die_roll = <<2, 5>>
    /\ board.turn = BLACK
    /\ move_rolls # <<>>

-----------------------------------------------------------------------------
(* Whose turn it is *)

\* agent = agents[agent_type]: the agent asked is the agent of the side to
\* move, its candidates are plays of that side, and neither applying nor
\* undoing a candidate touches the turn
AgentOfTurn ==
    /\ agent_type = board.turn
    /\ pc = "agent" =>
           \A i \in 1 .. Len(move_rolls) :
               LET applied == apply_move_roll(board, Some(move_rolls[i]))
               IN  /\ ApplyColour(board, move_rolls[i][1]) = agent_type
                   /\ applied.turn = board.turn
                   /\ undo_move_roll(applied, Some(move_rolls[i])).turn = board.turn

\* the turn changes in get_and_set_opponent_turn and in reset only; every
\* iteration of the loop ends with one get_and_set_opponent_turn after its
\* step, and that call gives the turn to the other side
TurnFlipsOncePerIteration ==
    /\ board'.turn # board.turn => pc \in {"turn", "reset"}
    /\ pc = "turn" =>
           /\ board'.turn # board.turn
           /\ board'.turn \in Player
           /\ agent_type' = board'.turn
           /\ pc' \in {"roll", "over"}
    /\ pc' = "turn" => (pc = "step" /\ todo = <<>>)
    /\ (pc = "step" /\ todo = <<>>) => pc' = "turn"

\* C36: the turn changes only through get_and_set_opponent_turn (or reset):
\* get_possible_move_rolls, apply_move_roll, undo_move_roll and step never
\* change board.turn.  In the turn loop the turn flips exactly once per
\* iteration, whether the side moved or passed, and the agent asked for a
\* move is always the agent of the colour equal to board.turn, the colour the
\* moves were generated for.
C36_TurnChanges == [](AgentOfTurn) /\ [][TurnFlipsOncePerIteration]_vars

\* white passed on a roll without a legal play, and the turn has gone to
\* black
C36_Witness ==
    /\ pc = "roll"
    /\ counter = 1
    /\ board = [LoneWhite EXCEPT !.turn = BLACK]
    /\ agent_type = BLACK

-----------------------------------------------------------------------------
(* Offed and barred counts over permanent play *)

\* the step is the permanent apply of a move of the given kinds by color
PermanentMoveOf(color, kinds) ==
    /\ pc = "step"
    /\ todo # <<>>
    /\ board.turn = color
    /\ Head(todo).move_type \in kinds
    /\ board' = apply_move(board, Head(todo))

\* from one state of the game to the next, no offed count goes down, a
\* barred count goes up only when the other side plays a hit, and it goes
\* down only when its own side enters from the bar
CountsOverPlay ==
    \A color \in Player :
        /\ Offed(board', color) >= Offed(board, color)
        /\ Offed(board', color) > Offed(board, color) =>
               PermanentMoveOf(color, {BEAR_OFF})
        /\ Barred(board', color) > Barred(board, color) =>
               PermanentMoveOf(Opponent(color), HitKinds)
        /\ Barred(board', color) < Barred(board, color) =>
               PermanentMoveOf(color, BarKinds)

\* C38: in every state reached by permanent play at most one colour has 15
\* offed checkers, and no colour's offed count ever goes down from one
\* permanent move to the next; a colour's barred count goes up only through
\* a hit move of the opponent and down only through that colour's own
\* bar-entry move.
C38_OffedAndBarredOverPlay ==
    [](~(board.offed_white = INIT_CHECKER_COUNT /\ board.offed_black = INIT_CHECKER_COUNT))
        /\ [][CountsOverPlay]_vars

\* white hit the black blot, and black has entered from the bar with its
\* next roll
C38_Witness ==
    /\ pc = "step"
    /\ counter = 10001
    /\ action # None
    /\ action[1][1].move_type \in BarKinds
    /\ todo = Tail(action[1])
    /\ board.turn = BLACK
    /\ board.barred_black = 0

-----------------------------------------------------------------------------
(* HumanAgent.get_move: the command u *)

\* the step is one pass of the input loop on the line u
UndoTyped == pc = "input" /\ cmd' = <<<<"u">>>>

\* u right after a filter gives back the list the filter was applied to; u
\* before any filter leaves the list alone
UndoRestores ==
    /\ (UndoTyped /\ filtered_from # None) =>
           move_rolls_in_effect' = filtered_from[1]
    /\ (UndoTyped /\ mv_rolls_hist = <<move_rolls>> /\ move_rolls_in_effect = move_rolls) =>
           move_rolls_in_effect' = move_rolls

\* C32: in HumanAgent.get_move the command u undoes the last filtering:
\* after a filter command s x,y followed by u, the candidate list in effect
\* (the one a later e idx indexes) is the list that was in effect before
\* that filter; and u with no filter applied leaves the list unchanged.
C32_UndoRestoresList == [][UndoRestores]_vars

-----------------------------------------------------------------------------
(* What the agents return *)

\* get_move has returned and step has applied nothing yet
AgentReturned == pc = "step" /\ (action = None \/ todo = action[1])

\* in the loops followed here the RandomAgent and the HumanAgent play black

\* None is returned for the empty list only, and a MoveRoll returned is one
\* of the list given, which is the list the generator gives for the
\* position and the roll
ReturnedFromGiven ==
    /\ (pc = "step" /\ agent_type = BLACK) =>
           /\ action = None <=> move_rolls = <<>>
           /\ action # None => \E i \in 1 .. Len(move_rolls) : move_rolls[i] = action[1]
    /\ (AgentReturned /\ action # None) =>
           \A generated \in {get_possible_move_rolls(board, die_roll).move_rolls} :
               \E i \in 1 .. Len(generated) : generated[i] = action[1]
    /\ pc = "input" =>
           \A i \in 1 .. Len(move_rolls_in_effect) :
               \E j \in 1 .. Len(move_rolls) : move_rolls[j] = move_rolls_in_effect[i]

\* the human agent returns on a command e idx only, with the element that
\* idx selects in the list in effect; and the position changes only by the
\* apply of the next move of the MoveRoll returned
ReturnedAtIndex ==
    /\ (pc = "input" /\ pc' = "step") =>
           /\ cmd'[1] = <<"e">>
           /\ LET idx == int(cmd'[2])[1]
                  n == Len(move_rolls_in_effect)
              IN  /\ -n <= idx /\ idx < n
                  /\ idx >= 0 => action' = Some(move_rolls_in_effect[idx + 1])
                  /\ idx < 0 => action' = Some(move_rolls_in_effect[n + idx + 1])
    /\ board' # [board EXCEPT !.turn = board'.turn] =>
           /\ pc = "step" /\ action # None /\ todo # <<>>
           /\ \E k \in 1 .. Len(action[1]) : todo = SubSeq(action[1], k, Len(action[1]))
           /\ board' = apply_move(board, Head(todo))

\* C33: RandomAgent.get_move and HumanAgent.get_move return None if and
\* only if the candidate list given is empty; otherwise the value returned
\* is an element of that list (for the human agent, after any sequence of s,
\* u and invalid commands, the element at the entered index of the list
\* currently in effect), so that only a MoveRoll the generator produced for
\* the current position is ever applied permanently by the turn loop.
C33_AgentsReturnCandidates == [](ReturnedFromGiven) /\ [][ReturnedAtIndex]_vars

\* the human agent filtered the candidates and returned with e -1 the last
\* MoveRoll of the list in effect, which is not the last of the list given
C33_Witness ==
    /\ AgentReturned
    /\ cmd = <<<<"e">>, <<"-", "1">>>>
    /\ Len(move_rolls) > 2
    /\ action # None
    /\ action[1] # move_rolls[Len(move_rolls)]

-----------------------------------------------------------------------------
(* exploration by TDAgent.get_move and the game passed to it *)

\* the agent that works on the game itself: after its loop of
\* apply_move_roll and undo_move_roll over the candidates the game is the
\* game it was given, and no undo has raised
GameAfterApplyUndoLoop ==
    pc = "agent" =>
        \A r \in {td_agent_loop([board |-> board, evaluated |-> <<>>, raised |-> FALSE],
                                move_rolls, 1, Len(move_rolls))} :
            r.board = board /\ ~r.raised

\* the agent that works on a clone: from the call of get_move to its
\* return, through every step and undo_move_roll on the clone, the
\* position and the step counter of the game passed in change nothing
OriginalKeptWhileExploring ==
    pc \in {"agent", "explore"} => (board' = board /\ counter' = counter)

\* the clone starts at counter 0 and its counter follows its own steps
CloneCounterIsItsOwn ==
    (pc = "explore" /\ env_clone # None) =>
        env_clone[1].counter = (IF env_clone[1].stepped THEN 1 ELSE 0)

\* C31: exploring never disturbs the game explored: step and undo_move_roll
\* on a clone leave the points, turn, barred counts, offed counts and step
\* counter of the original unchanged, and when TDAgent.get_move returns,
\* whether it worked on a clone or applied and undid on the game itself,
\* the game passed to it equals what it was before the call.
C31_ExplorationKeepsOriginal ==
    /\ [](GameAfterApplyUndoLoop /\ CloneCounterIsItsOwn)
    /\ [][OriginalKeptWhileExploring]_vars

\* a second candidate has been stepped on the clone, after a first one was
\* stepped and undone: the clone's points differ from the original's and
\* its counter is 1 while the original's is past the limit
C31_Witness ==
    /\ pc = "explore"
    /\ env_clone # None
    /\ env_clone[1].stepped
    /\ env_clone[1].next >= 2
    /\ env_clone[1].board.points # board.points
    /\ env_clone[1].counter = 1
    /\ counter = COUNTER_LIMIT + 1

====
